---- MODULE Spec2Model ----
(***************************************************************************)
(* Model of the context-extraction engine (core/context_builder.py and     *)
(* utils/file_utils.py), of the issue store (core/data_manager.py) and of  *)
(* the batch classification of the Run LLM page (pages/02_Run_LLM.py).     *)
(*                                                                         *)
(* Representation of Python values:                                        *)
(*  - a str without '\n' is a sequence of tokens; a token is one character *)
(*    ("x", "{", " ") or, for a fixed label of the program that no          *)
(*    operation looks into, the whole label ("Main File: ");               *)
(*  - a str that may hold '\n' (a text) is the non-empty sequence of the   *)
(*    strs between its newlines, i.e. exactly text.split('\n'); the empty   *)
(*    str '' is << <<>> >>;                                                 *)
(*  - a path is a sequence of components, each component a str.            *)
(***************************************************************************)
EXTENDS Integers, Sequences, FiniteSets, TLC

VARIABLES
    fs,        \* the filesystem: absolute path -> node
    cache,     \* ContextBuilder._file_cache: relative path str -> absolute path
    req,       \* the last build_context request
    res,       \* what the last build_context call gave back
    reads,     \* real locations of the files whose content the last call read
    ran,       \* the strategy methods the last call entered
    scans,     \* how often _build_file_cache has walked the project tree
    DB_PATH,         \* data_manager.DB_PATH
    DB_INITIALIZED,  \* data_manager.DB_INITIALIZED
    db,        \* the database file at each path
    out,       \* what the last call of data_manager gave back
    session,   \* st.session_state of the Run LLM page and the position of process_issues
    threads    \* the threads that share one ContextBuilder, each at its position

vars == <<fs, cache, req, res, reads, ran, scans, DB_PATH, DB_INITIALIZED, db, out,
          session, threads>>

\* the state of the context engine, that of the data manager, and that of
\* their callers
engine == <<fs, cache, req, res, reads, ran, scans>>
store == <<DB_PATH, DB_INITIALIZED, db, out>>
callers == <<session, threads>>

----------------------------------------------------------------------------
(* Bounds of the model *)

MaxFileLen == 3      \* lines of the primary file a.c
MaxLine == 4         \* line_number ranges over 1..MaxLine
MaxBefore == 1       \* lines_before ranges over 0..MaxBefore
MaxAfter == 1        \* lines_after ranges over 0..MaxAfter
MaxMaxLines == 2     \* max_lines ranges over 1..MaxMaxLines
MaxScans == 2        \* walks of the project tree that are followed

----------------------------------------------------------------------------
(* Integers and sequences *)

Max(a, b) == IF a >= b THEN a ELSE b
Min(a, b) == IF a <= b THEN a ELSE b

Last(s) == s[Len(s)]
Front(s) == SubSeq(s, 1, Len(s) - 1)

\* s[a:b] of Python for 0 <= a, 0 <= b (no negative indices are used)
Slice(s, a, b) == SubSeq(s, a + 1, Min(b, Len(s)))

RECURSIVE Concat(_)
\* ''.join(list of strs)
Concat(ss) == IF ss = <<>> THEN <<>> ELSE Head(ss) \o Concat(Tail(ss))

StartsWith(s, p) == Len(p) <= Len(s) /\ SubSeq(s, 1, Len(p)) = p
EndsWith(s, p) == Len(p) <= Len(s) /\ SubSeq(s, Len(s) - Len(p) + 1, Len(s)) = p

\* str.count of a one-character needle
Count(s, c) == Cardinality({i \in 1..Len(s) : s[i] = c})

Contains(s, c) == \E i \in 1..Len(s) : s[i] = c

\* float('inf') as an end line: larger than every line count of the model
Inf == 1000000

Digit == <<"0", "1", "2", "3", "4", "5", "6", "7", "8", "9">>

RECURSIVE Str(_)
\* str(n) for n >= 0
Str(n) == IF n < 10 THEN <<Digit[n + 1]>> ELSE Str(n \div 10) \o <<Digit[(n % 10) + 1]>>

----------------------------------------------------------------------------
(* Texts *)

EmptyText == << <<>> >>

\* a + b for two texts: the last part of a and the first of b become one part
TextCat(a, b) == Front(a) \o <<Last(a) \o Head(b)>> \o Tail(b)

RECURSIVE TextJoin(_)
\* ''.join(list of texts)
TextJoin(ts) == IF ts = <<>> THEN EmptyText ELSE TextCat(Head(ts), TextJoin(Tail(ts)))

RECURSIVE NlJoin(_)
\* '\n'.join(list of texts)
NlJoin(ts) ==
    IF ts = <<>> THEN EmptyText
    ELSE IF Len(ts) = 1 THEN Head(ts)
    ELSE Head(ts) \o NlJoin(Tail(ts))

RECURSIVE RStripNl(_)
\* text.rstrip('\n'): every trailing newline is a trailing empty part
RStripNl(t) == IF Len(t) > 1 /\ Last(t) = <<>> THEN RStripNl(Front(t)) ELSE t

\* "not text" of Python for a str: true for ''
IsEmptyText(t) == t = EmptyText

IsSpace(c) == c \in {" ", "\t"}

RECURSIVE LStrip(_)
LStrip(s) == IF s # <<>> /\ IsSpace(Head(s)) THEN LStrip(Tail(s)) ELSE s

RECURSIVE RStrip(_)
RStrip(s) == IF s # <<>> /\ IsSpace(Last(s)) THEN RStrip(Front(s)) ELSE s

\* str.strip() of a str without newlines
Strip(s) == RStrip(LStrip(s))

----------------------------------------------------------------------------
(* Paths *)

DotDot == <<".", ".">>
Dot == <<".">>

\* the process's working directory, /w
Cwd == << <<"w">> >>

\* the str of an absolute path given by its components
PathStr(p) == IF p = <<>> THEN <<"/">> ELSE Concat([i \in 1..Len(p) |-> <<"/">> \o p[i]])

\* a path as the caller writes it, <<isstr, isabs, comps>>: isstr is false for
\* a value that is no str (None, a number), isabs says whether the str starts
\* with '/', comps are the components between the '/'
RawPath(isabs, comps) == <<TRUE, isabs, comps>>
NotAPath == <<FALSE, FALSE, <<>> >>
IsStr(raw) == raw[1]
IsAbs(raw) == raw[2]
Comps(raw) == raw[3]

\* the str the caller wrote
RawStr(raw) ==
    (IF IsAbs(raw) THEN <<"/">> ELSE <<>>)
    \o Concat([i \in 1..Len(Comps(raw)) |->
                 (IF i = 1 THEN <<>> ELSE <<"/">>) \o Comps(raw)[i]])

RECURSIVE NormPath(_, _)
\* os.path.normpath on an absolute path: '.' and '' dropped, '..' removes the
\* component before it and is dropped at the root
NormPath(done, todo) ==
    IF todo = <<>> THEN done
    ELSE IF Head(todo) \in {Dot, <<>>} THEN NormPath(done, Tail(todo))
    ELSE IF Head(todo) = DotDot
         THEN NormPath(IF done = <<>> THEN <<>> ELSE Front(done), Tail(todo))
    ELSE NormPath(Append(done, Head(todo)), Tail(todo))

\* os.path.abspath(path) for a str: normpath(join(getcwd(), path))
AbsPath(raw) == NormPath(<<>>, IF IsAbs(raw) THEN Comps(raw) ELSE Cwd \o Comps(raw))

\* p lies in the directory tree of root (root is a proper ancestor of p)
IsUnder(p, root) == Len(p) > Len(root) /\ SubSeq(p, 1, Len(root)) = root

\* os.path.relpath(p, root) as a str, for p under root
RelStr(p, root) ==
    Concat([i \in 1..(Len(p) - Len(root)) |->
              (IF i = 1 THEN <<>> ELSE <<"/">>) \o p[Len(root) + i]])

----------------------------------------------------------------------------
(* The filesystem *)

NoNode == [kind |-> "none", lines |-> <<>>, eofnl |-> TRUE, readable |-> FALSE, target |-> <<>>]
DirNode == [kind |-> "dir", lines |-> <<>>, eofnl |-> TRUE, readable |-> TRUE, target |-> <<>>]
\* a regular file: the lines readlines() yields, without their '\n'; eofnl says
\* whether the last line ends with '\n'; readable is false for a file that
\* open() or the utf-8 decoder refuses
FileNode(lines, eofnl) ==
    [kind |-> "file", lines |-> lines, eofnl |-> eofnl, readable |-> TRUE, target |-> <<>>]
UnreadableFile ==
    [kind |-> "file", lines |-> <<>>, eofnl |-> TRUE, readable |-> FALSE, target |-> <<>>]
LinkNode(target) ==
    [kind |-> "link", lines |-> <<>>, eofnl |-> TRUE, readable |-> TRUE, target |-> target]

Lookup(f, p) == IF p \in DOMAIN f THEN f[p] ELSE NoNode

RECURSIVE RealPath(_, _, _)
\* the location a path names once symbolic links are followed
RealPath(f, p, fuel) ==
    IF Lookup(f, p).kind = "link" /\ fuel > 0
    THEN RealPath(f, Lookup(f, p).target, fuel - 1)
    ELSE p

\* os.stat(p): the node a path names, links followed; a dangling or looping
\* link names nothing
Stat(f, p) ==
    LET n == Lookup(f, RealPath(f, p, Cardinality(DOMAIN f)))
    IN IF n.kind = "link" THEN NoNode ELSE n

Exists(f, p) == Stat(f, p).kind # "none"
IsFile(f, p) == Stat(f, p).kind = "file"
IsLink(f, p) == Lookup(f, p).kind = "link"

\* open(p, 'r', encoding='utf-8') followed by reading succeeds
CanRead(f, p) == IsFile(f, p) /\ Stat(f, p).readable

----------------------------------------------------------------------------
(* utils/file_utils.py *)

\* is_path_safe without its os.path.islink test: a guard that C2 must tell
\* from the code's
is_path_safe_without_islink(f, file_path, project_root) ==
    IF ~IsStr(file_path) \/ ~IsStr(project_root)
    THEN FALSE
    ELSE LET abs_file_path == AbsPath(file_path)
             abs_project_root == AbsPath(project_root)
         IN IF ~Exists(f, abs_file_path) THEN FALSE
            ELSE IF ~StartsWith(PathStr(abs_file_path), PathStr(abs_project_root)) THEN FALSE
            ELSE IF ~IsFile(f, abs_file_path) THEN FALSE
            ELSE TRUE

is_path_safe(f, file_path, project_root) ==
    IF ~IsStr(file_path) \/ ~IsStr(project_root)
    THEN FALSE                                   \* abspath raises, except: False
    ELSE LET abs_file_path == AbsPath(file_path)
             abs_project_root == AbsPath(project_root)
         IN IF ~Exists(f, abs_file_path) THEN FALSE
            ELSE IF ~StartsWith(PathStr(abs_file_path), PathStr(abs_project_root)) THEN FALSE
            ELSE IF ~IsFile(f, abs_file_path) THEN FALSE
            ELSE IF IsLink(f, abs_file_path) THEN FALSE
            ELSE TRUE

\* Optional[str] values
NoneStr == [some |-> FALSE, text |-> EmptyText]
SomeStr(t) == [some |-> TRUE, text |-> t]

\* ''.join(selected_lines) for lines sel of a file, the last of them ending
\* with '\n' iff terminated
JoinLines(sel, terminated) ==
    IF sel = <<>> THEN EmptyText
    ELSE IF terminated THEN Append(sel, <<>>)
    ELSE sel

\* the selected lines of a readable file, joined and stripped: start_line is
\* already max(1, start_line)
SelectLines(node, start_line, end_line0) ==
    LET end_line == Min(Max(start_line, end_line0), Len(node.lines))
    IN RStripNl(JoinLines(Slice(node.lines, start_line - 1, end_line),
                          end_line < Len(node.lines) \/ node.eofnl))

\* read_file_lines(p, start_line, end_line) for an absolute path p
read_file_lines(f, p, start_line, end_line) ==
    IF ~CanRead(f, p) THEN NoneStr               \* open or decode raises, except: None
    ELSE SomeStr(SelectLines(Stat(f, p), Max(1, start_line), end_line))

----------------------------------------------------------------------------
(* Keyword options and results *)

\* **kwargs: each documented option is <<>> when the caller did not pass it
\* and <<v>> when it was passed with value v
Kwargs(lb, la, ml, hl) ==
    [lines_before |-> lb, lines_after |-> la, max_lines |-> ml, highlight_issue_line |-> hl]
NoKwargs == Kwargs(<<>>, <<>>, <<>>, <<>>)

\* the value a parameter is bound to: the one passed, or its default
Arg(opt, default) == IF opt = <<>> THEN default ELSE opt[1]

\* What a call gives back: a str (kind "text"), None (kind "None") or an
\* exception (kind "raise"); reads are the real locations of the files whose
\* content the call read, ran the strategy methods it entered.
Ret(t, rd, rn) == [kind |-> "text", text |-> t, exc |-> "", reads |-> rd, ran |-> rn]
RetNone(rd, rn) == [kind |-> "None", text |-> EmptyText, exc |-> "", reads |-> rd, ran |-> rn]
Raise(e, rd, rn) == [kind |-> "raise", text |-> EmptyText, exc |-> e, reads |-> rd, ran |-> rn]

\* a callee's result, seen from the caller that had read rd and entered rn
Via(r, rd, rn) == [r EXCEPT !.reads = @ \cup rd, !.ran = @ \cup rn]

\* the files whose content open(p) hands out
ReadsOf(f, p) == IF CanRead(f, p) THEN {RealPath(f, p, Cardinality(DOMAIN f))} ELSE {}

\* a numbering that gives every line the first line's number: C12 must tell it
\* from the code's
NumberLinesAlike(lines, start) ==
    [i \in 1..Len(lines) |-> Str(start) \o <<":", " ">> \o lines[i]]

\* [f"{start + i}: {line}" for i, line in enumerate(lines)]
NumberLines(lines, start) ==
    [i \in 1..Len(lines) |-> Str(start + i - 1) \o <<":", " ">> \o lines[i]]

----------------------------------------------------------------------------
(* core/context_builder.py: the fixed_lines strategy *)

DefaultLinesBefore == 5
DefaultLinesAfter == 5

\* lines 106-118: the numbered lines of what read_file_lines gave
NumberedContext(context, start_line, rd) ==
    IF ~context.some
    THEN RetNone(rd, {"fixed_lines"})            \* None.split raises, except: None
    ELSE Ret(NumberLines(context.text, start_line), rd, {"fixed_lines"})

_build_fixed_lines_context(f, file_path, line_number, kw) ==
    IF kw.max_lines # <<>> \/ kw.highlight_issue_line # <<>>
    THEN Raise("TypeError", {}, {})              \* unexpected keyword argument
    ELSE LET lines_before == Arg(kw.lines_before, DefaultLinesBefore)
             lines_after == Arg(kw.lines_after, DefaultLinesAfter)
             start_line == Max(1, line_number - lines_before)
             end_line == line_number + lines_after
         IN NumberedContext(read_file_lines(f, AbsPath(file_path), start_line, end_line),
                            start_line, ReadsOf(f, AbsPath(file_path)))

----------------------------------------------------------------------------
(* core/context_builder.py: the function_scope strategy *)

WindowBefore == 50
WindowAfter == 200
DefaultFunctionMaxLines == 100

WordChars ==
    {"a", "b", "c", "d", "e", "f", "g", "h", "i", "j", "k", "l", "m", "n", "o", "p", "q",
     "r", "s", "t", "u", "v", "w", "x", "y", "z", "0", "1", "2", "3", "4", "5", "6", "7",
     "8", "9", "_"}
IsWord(c) == c \in WordChars

\* s[i..j] matches (\w+\s+)+\w+\s*
MatchesNames(s, i, j) ==
    /\ i <= j
    /\ IsWord(s[i])
    /\ \A k \in i..j : IsWord(s[k]) \/ IsSpace(s[k])
    /\ \E k \in i..j : IsSpace(s[k]) /\ \E k2 \in (k + 1)..j : IsWord(s[k2])

\* re.search(r'(\w+\s+)+\w+\s*\([^)]*\)\s*({|$)', s) finds a match
SignatureMatch(s) ==
    \E p \in 1..Len(s) :
        /\ s[p] = "("
        /\ \E i \in 1..(p - 1) : MatchesNames(s, i, p - 1)
        /\ \E q \in (p + 1)..Len(s) :
              /\ s[q] = ")"
              /\ \A k \in (p + 1)..(q - 1) : s[k] # ")"
              /\ \E r \in q..Len(s) :
                    /\ \A k \in (q + 1)..r : IsSpace(s[k])
                    /\ (r = Len(s) \/ s[r + 1] = "{")

\* the test that ends the walk back from the signature line
IsBoundary(prev_line) ==
    \/ prev_line = <<>>
    \/ StartsWith(prev_line, <<"/", "/">>)
    \/ StartsWith(prev_line, <<"/", "*">>)
    \/ EndsWith(prev_line, <<";">>)

RECURSIVE WalkBack(_, _)
\* the while loop over j (0-based); lines[j-1] of Python is lines[j] here
WalkBack(lines, j) ==
    IF j > 0 /\ ~IsBoundary(Strip(lines[j])) THEN WalkBack(lines, j - 1) ELSE j

NotFound == -1
IndexError == -2

RECURSIVE BackScan(_, _, _)
\* the backward loop from index i (0-based) with the brace_count so far: the
\* func_start_idx, NotFound when the loop ends or breaks without one,
\* IndexError when lines[i] does not exist
BackScan(lines, i, brace_count) ==
    IF i < 0 THEN NotFound
    ELSE IF i >= Len(lines) THEN IndexError
    ELSE LET line == Strip(lines[i + 1])
             bc1 == IF Contains(line, "{") THEN brace_count + Count(line, "{")
                    ELSE brace_count
         IN IF Contains(line, "{") /\ SignatureMatch(line) THEN WalkBack(lines, i)
            ELSE IF Contains(line, "}") \/ EndsWith(line, <<";">>)
                 THEN (IF bc1 - Count(line, "}") <= 0 THEN NotFound
                       ELSE BackScan(lines, i - 1, bc1 - Count(line, "}")))
            ELSE BackScan(lines, i - 1, bc1)

RECURSIVE ForwardScan(_, _, _, _)
\* the forward loop from index i (0-based): the func_end_idx or NotFound
ForwardScan(lines, func_start_idx, i, brace_count) ==
    IF i >= Len(lines) THEN NotFound
    ELSE LET bc == brace_count + Count(lines[i + 1], "{") - Count(lines[i + 1], "}")
         IN IF bc = 0 /\ i > func_start_idx THEN i
            ELSE ForwardScan(lines, func_start_idx, i + 1, bc)

\* the span test that sends a found function to the fallback
TooLarge(func_start_idx, func_end_idx, max_lines) == (func_end_idx - func_start_idx) > max_lines

\* a fallback that forgets the caller's lines_before and lines_after: C7 must
\* tell it from the code's
FunctionFallbackDefaults(kw) == NoKwargs

\* the options the fallback of function_scope is called with
FunctionFallbackKwargs(kw) == [kw EXCEPT !.max_lines = <<>>]

\* lines 214-225: the span from func_start_idx to func_end_idx, or the fallback
FunctionSpan(lines, func_start_idx, func_end_idx, window_start, max_lines, rd, fallback) ==
    IF func_end_idx = NotFound \/ TooLarge(func_start_idx, func_end_idx, max_lines)
    THEN fallback
    ELSE Ret(NumberLines(SubSeq(lines, func_start_idx + 1, func_end_idx + 1),
                         window_start + func_start_idx), rd, {"function_scope"})

\* lines 194-212: the fallback when no start was found (or lines[i] raised),
\* else the forward scan
FunctionFrom(lines, func_start_idx, window_start, max_lines, rd, fallback) ==
    IF func_start_idx \in {NotFound, IndexError} THEN fallback
    ELSE FunctionSpan(lines, func_start_idx,
                      ForwardScan(lines, func_start_idx, func_start_idx, 0),
                      window_start, max_lines, rd, fallback)

\* lines 148-192: the window read and the backward scan
FunctionWindow(window_content, line_number, window_start, max_lines, rd, fallback) ==
    IF ~window_content.some \/ IsEmptyText(window_content.text)
    THEN RetNone(rd, {"function_scope"})
    ELSE FunctionFrom(window_content.text,
                      BackScan(window_content.text,
                               Min(WindowBefore, line_number - window_start), 0),
                      window_start, max_lines, rd, fallback)

_build_function_scope_context(f, file_path, line_number, kw) ==
    LET max_lines == Arg(kw.max_lines, DefaultFunctionMaxLines)
        window_start == Max(1, line_number - WindowBefore)
        window_end == line_number + WindowAfter
    IN FunctionWindow(read_file_lines(f, AbsPath(file_path), window_start, window_end),
                      line_number, window_start, max_lines, ReadsOf(f, AbsPath(file_path)),
                      Via(_build_fixed_lines_context(f, file_path, line_number,
                                                     FunctionFallbackKwargs(kw)),
                          ReadsOf(f, AbsPath(file_path)), {"function_scope"}))

----------------------------------------------------------------------------
(* core/context_builder.py: the file_scope strategy *)

DefaultFileMaxLines == 1000

\* the options file_scope hands on: max_lines and highlight_issue_line are its own
FileFallbackKwargs(kw) == [kw EXCEPT !.max_lines = <<>>, !.highlight_issue_line = <<>>]

\* f"{line_num}: >>> {line} <<<" for the issue line, f"{line_num}: {line}" otherwise
HighlightLines(lines, line_number, highlight_issue_line) ==
    [i \in 1..Len(lines) |->
        IF highlight_issue_line /\ i = line_number
        THEN Str(i) \o <<":", " ", ">", ">", ">", " ">> \o lines[i] \o <<" ", "<", "<", "<">>
        ELSE Str(i) \o <<":", " ">> \o lines[i]]

\* lines 260-265: function_scope, and fixed_lines if that gave None
FileScopeFallback(by_function, by_fixed, rd) ==
    IF by_function.kind # "None" THEN Via(by_function, rd, {"file_scope"})
    ELSE Via(by_fixed, rd \cup by_function.reads, {"file_scope"} \cup by_function.ran)

\* lines 267-285: the whole file, numbered
FileScopeWhole(context, line_number, highlight_issue_line, rd) ==
    IF ~context.some \/ IsEmptyText(context.text) THEN RetNone(rd, {"file_scope"})
    ELSE Ret(HighlightLines(context.text, line_number, highlight_issue_line), rd, {"file_scope"})

\* lines 255-290 for the file at p, given what the two fallbacks give
FileScopeOn(f, p, line_number, max_lines, highlight_issue_line, by_function, by_fixed) ==
    IF ~CanRead(f, p)
    THEN Via(by_fixed, {}, {"file_scope"})       \* open raises, except: fallback
    ELSE IF Len(Stat(f, p).lines) > max_lines
         THEN FileScopeFallback(by_function, by_fixed, ReadsOf(f, p))
    ELSE FileScopeWhole(read_file_lines(f, p, 1, Len(Stat(f, p).lines)),
                        line_number, highlight_issue_line, ReadsOf(f, p))

_build_file_scope_context(f, file_path, line_number, kw) ==
    FileScopeOn(f, AbsPath(file_path), line_number,
                Arg(kw.max_lines, DefaultFileMaxLines),
                Arg(kw.highlight_issue_line, TRUE),
                _build_function_scope_context(f, file_path, line_number, FileFallbackKwargs(kw)),
                _build_fixed_lines_context(f, file_path, line_number, FileFallbackKwargs(kw)))

----------------------------------------------------------------------------
(* core/context_builder.py: the file_with_includes strategy *)

\* ContextBuilder.project_root, /p
ProjectRoot == RawPath(TRUE, << <<"p">> >>)

_std_headers ==
    {<<"i", "o", "s", "t", "r", "e", "a", "m">>,
     <<"v", "e", "c", "t", "o", "r">>,
     <<"s", "t", "r", "i", "n", "g">>,
     <<"m", "a", "p">>,
     <<"s", "e", "t">>,
     <<"l", "i", "s", "t">>,
     <<"d", "e", "q", "u", "e">>,
     <<"q", "u", "e", "u", "e">>,
     <<"s", "t", "a", "c", "k">>,
     <<"a", "l", "g", "o", "r", "i", "t", "h", "m">>,
     <<"m", "e", "m", "o", "r", "y">>,
     <<"u", "t", "i", "l", "i", "t", "y">>,
     <<"t", "u", "p", "l", "e">>,
     <<"a", "r", "r", "a", "y">>,
     <<"c", "h", "r", "o", "n", "o">>,
     <<"c", "m", "a", "t", "h">>,
     <<"c", "s", "t", "d", "l", "i", "b">>,
     <<"c", "s", "t", "r", "i", "n", "g">>,
     <<"c", "t", "i", "m", "e">>,
     <<"f", "s", "t", "r", "e", "a", "m">>,
     <<"i", "o", "m", "a", "n", "i", "p">>,
     <<"i", "o", "s">>,
     <<"i", "o", "s", "f", "w", "d">>,
     <<"i", "s", "t", "r", "e", "a", "m">>,
     <<"o", "s", "t", "r", "e", "a", "m">>,
     <<"s", "s", "t", "r", "e", "a", "m">>,
     <<"s", "t", "r", "e", "a", "m", "b", "u", "f">>,
     <<"c", "a", "s", "s", "e", "r", "t">>,
     <<"c", "c", "t", "y", "p", "e">>,
     <<"c", "e", "r", "r", "n", "o">>,
     <<"c", "f", "l", "o", "a", "t">>,
     <<"c", "l", "i", "m", "i", "t", "s">>,
     <<"c", "l", "o", "c", "a", "l", "e">>,
     <<"c", "s", "t", "d", "a", "r", "g">>,
     <<"c", "s", "t", "d", "d", "e", "f">>,
     <<"c", "s", "t", "d", "i", "o">>,
     <<"c", "w", "c", "h", "a", "r">>,
     <<"c", "w", "c", "t", "y", "p", "e">>,
     <<"e", "x", "c", "e", "p", "t", "i", "o", "n">>,
     <<"f", "u", "n", "c", "t", "i", "o", "n", "a", "l">>,
     <<"l", "i", "m", "i", "t", "s">>,
     <<"l", "o", "c", "a", "l", "e">>,
     <<"n", "e", "w">>,
     <<"n", "u", "m", "e", "r", "i", "c">>,
     <<"r", "a", "n", "d", "o", "m">>,
     <<"r", "a", "t", "i", "o">>,
     <<"s", "t", "d", "e", "x", "c", "e", "p", "t">>,
     <<"t", "y", "p", "e", "i", "n", "f", "o">>,
     <<"t", "y", "p", "e", "_", "t", "r", "a", "i", "t", "s">>,
     <<"u", "n", "o", "r", "d", "e", "r", "e", "d", "_", "m", "a", "p">>,
     <<"u", "n", "o", "r", "d", "e", "r", "e", "d", "_", "s", "e", "t">>}

SourceExtensions == << <<".", "h">>, <<".", "h", "p", "p">>, <<".", "c", "p", "p">>,
                      <<".", "c", "c">>, <<".", "c">> >>

\* file.endswith(('.h', '.hpp', '.cpp', '.cc', '.c'))
HasSourceExtension(name) == \E i \in 1..Len(SourceExtensions) : EndsWith(name, SourceExtensions[i])

\* the files os.walk(project_root) lists: every entry below the root that is
\* not a directory (a link to a file or to nothing is listed, a link to a
\* directory is not and is not descended into)
Walked(f, root) ==
    {p \in DOMAIN f :
        /\ IsUnder(p, root)
        /\ f[p].kind \in {"file", "link"}
        /\ Stat(f, p).kind # "dir"
        /\ \A n \in Len(root)..(Len(p) - 1) : Lookup(f, SubSeq(p, 1, n)).kind = "dir"}

\* the _file_cache that _build_file_cache fills: relative path -> os.path.join(root, file)
_build_file_cache(f) ==
    LET root == AbsPath(ProjectRoot)
        found == {p \in Walked(f, root) : HasSourceExtension(Last(p))}
    IN [k \in {RelStr(p, root) : p \in found} |-> CHOOSE p \in found : RelStr(p, root) = k]

\* the content of a text as one str, the newlines as "\n" tokens
RECURSIVE Flatten(_)
Flatten(t) == IF Len(t) = 1 THEN Head(t) ELSE Head(t) \o <<"\n">> \o Flatten(Tail(t))

IsReSpace(c) == c \in {" ", "\t", "\n"}

IncludeKeyword == <<"#", "i", "n", "c", "l", "u", "d", "e">>

RECURSIVE SkipSpace(_, _)
SkipSpace(s, i) == IF i <= Len(s) /\ IsReSpace(s[i]) THEN SkipSpace(s, i + 1) ELSE i

RECURSIVE FirstCloser(_, _)
\* the first index >= i holding '>' or '"', 0 if there is none
FirstCloser(s, i) ==
    IF i > Len(s) THEN 0 ELSE IF s[i] \in {">", "\""} THEN i ELSE FirstCloser(s, i + 1)

RECURSIVE IncludeMatches(_, _)
\* [m.group(1) for m in re.finditer(r'#include\s*[<"]([^>"]+)[>"]', s)] from index i on
IncludeMatches(s, i) ==
    IF i > Len(s) THEN <<>>
    ELSE LET open == SkipSpace(s, i + Len(IncludeKeyword))
             close == FirstCloser(s, open + 1)
             hit == /\ i + Len(IncludeKeyword) - 1 <= Len(s)
                    /\ SubSeq(s, i, i + Len(IncludeKeyword) - 1) = IncludeKeyword
                    /\ open <= Len(s)
                    /\ s[open] \in {"<", "\""}
                    /\ close > open + 1
         IN IF hit THEN <<SubSeq(s, open + 1, close - 1)>> \o IncludeMatches(s, close + 1)
            ELSE IncludeMatches(s, i + 1)

RECURSIVE AfterLast(_, _)
\* s.split(c)[-1]
AfterLast(s, c) == IF Contains(s, c) THEN AfterLast(Tail(s), c) ELSE s

RECURSIVE BeforeFirst(_, _)
\* s.split(c)[0]
BeforeFirst(s, c) ==
    IF s = <<>> \/ Head(s) = c THEN <<>> ELSE <<Head(s)>> \o BeforeFirst(Tail(s), c)

\* include.split('/')[-1].split('.')[0] not in self._std_headers
IsProjectInclude(include) == BeforeFirst(AfterLast(include, "/"), ".") \notin _std_headers

_find_includes(content) ==
    SelectSeq(IncludeMatches(Flatten(content), 1), IsProjectInclude)

RECURSIVE LastDot(_, _)
\* the index of the last '.' of s at or before i, 0 if there is none
LastDot(s, i) == IF i = 0 THEN 0 ELSE IF s[i] = "." THEN i ELSE LastDot(s, i - 1)

RECURSIVE AllDots(_, _, _)
AllDots(s, a, b) == a > b \/ (s[a] = "." /\ AllDots(s, a + 1, b))

\* os.path.splitext(s)[0]: the extension starts at the last dot of the last
\* component, unless only dots lie between the component's start and it
SplitExtBase(s) ==
    LET base == Len(s) - Len(AfterLast(s, "/")) + 1     \* first index of the last component
        dot == LastDot(s, Len(s))
    IN IF dot > base /\ ~AllDots(s, base, dot) THEN SubSeq(s, 1, dot - 1) ELSE s

RECURSIVE FirstKey(_, _, _)
\* the loop over the extensions: the first base_name + ext that is a key
FirstKey(c, base_name, i) ==
    IF i > Len(SourceExtensions) THEN <<>>
    ELSE IF (base_name \o SourceExtensions[i]) \in DOMAIN c THEN <<c[base_name \o SourceExtensions[i]]>>
    ELSE FirstKey(c, base_name, i + 1)

\* a lookup that goes by the extensions alone
_find_include_file_by_extension(c, include) == FirstKey(c, SplitExtBase(include), 1)

\* _find_include_file(include): <<path>> when found, <<>> for None
_find_include_file(c, include) ==
    IF include \in DOMAIN c THEN <<c[include]>>
    ELSE FirstKey(c, SplitExtBase(include), 1)

\* the cache after the "if not self._file_cache" step
file_cache_after(f, c) == IF DOMAIN c = {} THEN _build_file_cache(f) ELSE c

RECURSIVE IncludedFilesContext(_, _, _)
\* included_files_context: one text per include that resolves and reads non-empty
IncludedFilesContext(f, c, includes) ==
    IF includes = <<>> THEN <<>>
    ELSE LET include_path == _find_include_file(c, Head(includes))
             include_content ==
                 IF include_path = <<>> THEN NoneStr
                 ELSE read_file_lines(f, include_path[1], 1, Inf)
             rest == IncludedFilesContext(f, c, Tail(includes))
         IN IF include_content.some /\ ~IsEmptyText(include_content.text)
            THEN << TextCat(<< <<>>, <<"Included File: ">> \o PathStr(include_path[1]), <<>> >>,
                            include_content.text) >> \o rest
            ELSE rest

RECURSIVE IncludedReads(_, _, _)
\* the include files whose content was read
IncludedReads(f, c, includes) ==
    IF includes = <<>> THEN {}
    ELSE LET include_path == _find_include_file(c, Head(includes))
         IN (IF include_path = <<>> THEN {} ELSE ReadsOf(f, include_path[1]))
            \cup IncludedReads(f, c, Tail(includes))

\* os.path.join('prompts', 'file_with_includes_context.txt'), relative to the
\* working directory
TemplatePath == RawPath(FALSE, << <<"prompts">>, <<"file_with_includes_context.txt">> >>)

ContextKeys ==
    {"main_file", "line_number", "issue_summary", "source_code_context", "included_files_context"}

FormatOk(t) == [ok |-> TRUE, text |-> t]
FormatError == [ok |-> FALSE, text |-> EmptyText]

RECURSIVE FormatStr(_, _)
\* str.format(**context) on a str without newlines; a replacement field is the
\* three tokens "{", name, "}"; "{{" and "}}" are the escaped braces
FormatStr(s, context) ==
    IF s = <<>> THEN FormatOk(EmptyText)
    ELSE IF Len(s) >= 2 /\ Head(s) \in {"{", "}"} /\ s[2] = Head(s)
         THEN LET r == FormatStr(SubSeq(s, 3, Len(s)), context)
              IN IF r.ok THEN FormatOk(TextCat(<< <<Head(s)>> >>, r.text)) ELSE r
    ELSE IF Head(s) = "{"
         THEN (IF Len(s) >= 3 /\ s[3] = "}" /\ s[2] \in ContextKeys
               THEN LET r == FormatStr(SubSeq(s, 4, Len(s)), context)
                    IN IF r.ok THEN FormatOk(TextCat(context[s[2]], r.text)) ELSE r
               ELSE FormatError)                 \* KeyError, IndexError or ValueError
    ELSE IF Head(s) = "}" THEN FormatError       \* ValueError
    ELSE LET r == FormatStr(Tail(s), context)
         IN IF r.ok THEN FormatOk(TextCat(<< <<Head(s)>> >>, r.text)) ELSE r

RECURSIVE FormatText(_, _)
\* template.format(**context) for a text
FormatText(t, context) ==
    LET h == FormatStr(Head(t), context)
    IN IF Len(t) = 1 THEN h
       ELSE LET r == FormatText(Tail(t), context)
            IN IF h.ok /\ r.ok THEN FormatOk(h.text \o r.text) ELSE FormatError

\* f.read() of a readable file
ReadAll(f, p) == JoinLines(Stat(f, p).lines, Stat(f, p).eofnl)

\* the context dict of lines 339-345
TemplateContext(file_path, line_number, main_file_content, included_files_context) ==
    [main_file |-> << RawStr(file_path) >>,
     line_number |-> << Str(line_number) >>,
     issue_summary |-> EmptyText,
     source_code_context |-> main_file_content,
     included_files_context |-> NlJoin(included_files_context)]

\* line 355: the result without a template
SimpleFormat(file_path, line_number, main_file_content, included_files_context) ==
    TextJoin(<< << <<"Main File: ">> \o RawStr(file_path),
                   <<"Line: ">> \o Str(line_number),
                   <<>>,
                   <<"Source Code:">>,
                   <<>> >>,
                main_file_content,
                << <<>>, <<>>, <<"Included Files:">>, <<>> >>,
                TextJoin(included_files_context) >>)

\* lines 350-352: the template read and formatted; a failure is caught at line 357
TemplateFormat(formatted, rd) ==
    IF ~formatted.ok THEN RetNone(rd, {"file_with_includes"})
    ELSE Ret(formatted.text, rd, {"file_with_includes"})

\* lines 338-355 for the main file's content and the texts of its includes
FormatIncludes(f, file_path, line_number, main_file_content, included_files_context, rd) ==
    IF Exists(f, AbsPath(TemplatePath))
    THEN (IF ~CanRead(f, AbsPath(TemplatePath)) THEN RetNone(rd, {"file_with_includes"})
          ELSE TemplateFormat(
                   FormatText(ReadAll(f, AbsPath(TemplatePath)),
                              TemplateContext(file_path, line_number, main_file_content,
                                              included_files_context)),
                   rd \cup ReadsOf(f, AbsPath(TemplatePath))))
    ELSE Ret(SimpleFormat(file_path, line_number, main_file_content, included_files_context),
             rd, {"file_with_includes"})

\* lines 326-336 for the includes found in the main file
WithIncludes(f, c, file_path, line_number, main_file_content, includes, rd) ==
    FormatIncludes(f, file_path, line_number, main_file_content,
                   IncludedFilesContext(f, c, includes),
                   rd \cup IncludedReads(f, c, includes))

\* lines 321-327 for what read_file_lines gave for the main file
WithMainFile(f, c, file_path, line_number, main_file_content, rd) ==
    IF ~main_file_content.some \/ IsEmptyText(main_file_content.text)
    THEN RetNone(rd, {"file_with_includes"})
    ELSE WithIncludes(f, c, file_path, line_number, main_file_content.text,
                      _find_includes(main_file_content.text), rd)

_build_file_with_includes_context(f, c, file_path, line_number, kw) ==
    IF ~is_path_safe(f, file_path, ProjectRoot) THEN RetNone({}, {"file_with_includes"})
    ELSE WithMainFile(f, file_cache_after(f, c), file_path, line_number,
                      read_file_lines(f, AbsPath(file_path), 1, Inf),
                      ReadsOf(f, AbsPath(file_path)))

----------------------------------------------------------------------------
(* core/context_builder.py: build_context *)

build_context(f, c, file_path, line_number, strategy, kw) ==
    IF ~is_path_safe(f, file_path, ProjectRoot) THEN RetNone({}, {})
    ELSE IF strategy = "fixed_lines"
         THEN _build_fixed_lines_context(f, file_path, line_number, kw)
    ELSE IF strategy = "function_scope"
         THEN _build_function_scope_context(f, file_path, line_number, kw)
    ELSE IF strategy = "file_scope"
         THEN _build_file_scope_context(f, file_path, line_number, kw)
    ELSE IF strategy = "file_with_includes"
         THEN _build_file_with_includes_context(f, c, file_path, line_number, kw)
    ELSE IF strategy = "multiagent_scope"
         THEN Raise("AttributeError", {}, {})    \* no _build_multiagent_scope_context
    ELSE Raise("ValueError", {}, {})

\* self._file_cache after the call
cache_after_build_context(f, c, file_path, strategy) ==
    IF is_path_safe(f, file_path, ProjectRoot) /\ strategy = "file_with_includes"
    THEN file_cache_after(f, c)
    ELSE c

\* the calls of _build_file_cache during the call: one when the strategy finds
\* self._file_cache empty (line 318)
scans_in_build_context(f, c, file_path, strategy) ==
    IF is_path_safe(f, file_path, ProjectRoot) /\ strategy = "file_with_includes"
       /\ DOMAIN c = {}
    THEN 1
    ELSE 0

----------------------------------------------------------------------------
(* core/data_manager.py.  A database is what the file at one path holds:   *)
(* whether the three tables and the trigger exist, and the rows of each    *)
(* table in insertion order; a row's id is its position, as AUTOINCREMENT  *)
(* numbers them and no row is ever deleted.                                *)

MaxIssues == 2            \* rows followed in the issues table
MaxClassifications == 1   \* rows followed in the llm_classifications table
MaxBatch == 2             \* issues in one add_issues batch

\* the configured path, and the one a test's setUp points DB_PATH at
DefaultDbPath == "db/issues.db"
TestDbPath == "tmp/test_issues.db"
DbPaths == {DefaultDbPath, TestDbPath}

\* a file that is missing or that sqlite3.connect has just created
NoTables ==
    [tables |-> FALSE, issues |-> <<>>, llm_classifications |-> <<>>, llm_responses |-> <<>>]

\* CREATE TABLE / TRIGGER IF NOT EXISTS
CreateTables(d) == [d EXCEPT !.tables = TRUE]

\* what a call of data_manager gave back, and the database it left
Returned(d, value) == [db |-> d, kind |-> "return", value |-> <<value>>, exc |-> ""]
Raised(d, exc) == [db |-> d, kind |-> "raise", value |-> <<>>, exc |-> exc]

\* get_db_connection closes the connection on the way out: what was not
\* committed is rolled back
ClosedUncommitted(d, uncommitted) == d

init_db(initialized, d) ==
    IF initialized
    THEN [db |-> d, initialized |-> TRUE]
    ELSE [db |-> CreateTables(d), initialized |-> TRUE]

\* an issue dict is the set of its keys
RequiredFields ==
    {"cppcheck_file", "cppcheck_line", "cppcheck_severity", "cppcheck_id", "cppcheck_summary"}
NewIssue == [status |-> "pending_llm", true_classification |-> <<>>]

\* the loop of add_issues, on the connection's uncommitted view d
RECURSIVE InsertIssues(_, _)
InsertIssues(d, issues) ==
    IF issues = <<>> THEN [db |-> d, exc |-> ""]
    ELSE IF ~(RequiredFields \subseteq Head(issues)) THEN [db |-> d, exc |-> "ValueError"]
    ELSE IF ~d.tables THEN [db |-> d, exc |-> "OperationalError"]
    ELSE InsertIssues([d EXCEPT !.issues = Append(@, NewIssue)], Tail(issues))

AddIssuesDone(d, r) ==
    IF r.exc # ""
    THEN Raised(ClosedUncommitted(d, r.db), r.exc)
    ELSE Returned(r.db, [k \in 1..(Len(r.db.issues) - Len(d.issues)) |-> Len(d.issues) + k])

add_issues(d, issues) == AddIssuesDone(d, InsertIssues(d, issues))

\* SELECT id FROM issues / llm_classifications WHERE id = ?
IssueExists(d, issue_id) == issue_id \in 1..Len(d.issues)
ClassificationExists(d, classification_id) == classification_id \in 1..Len(d.llm_classifications)

add_llm_response(d, classification_id) ==
    IF ~d.tables THEN Raised(d, "OperationalError")
    ELSE IF ~ClassificationExists(d, classification_id) THEN Raised(d, "ValueError")
    ELSE Returned([d EXCEPT !.llm_responses = Append(@, [classification_id |-> classification_id])],
                  Len(d.llm_responses) + 1)

\* UPDATE issues SET status = 'pending_review' WHERE id = ? AND status = 'pending_llm'
StatusAfterClassificationAlways(status) == "pending_review"
StatusAfterClassification(status) ==
    IF status = "pending_llm" THEN "pending_review" ELSE status

\* the INSERT without the UPDATE of the issue
\* the row INSERTed into llm_classifications; attempt holds the arguments
\* llm_model_name, context_strategy, prompt_template and classification
ClassificationRow(issue_id, attempt) ==
    [issue_id |-> issue_id, llm_model_name |-> attempt.llm_model_name,
     context_strategy |-> attempt.context_strategy,
     prompt_template |-> attempt.prompt_template,
     classification |-> attempt.classification, user_agrees |-> <<>>]

ClassifiedWithoutStatus(d, issue_id, attempt) ==
    [d EXCEPT !.llm_classifications = Append(@, ClassificationRow(issue_id, attempt))]

Classified(d, issue_id, attempt) ==
    [d EXCEPT !.llm_classifications = Append(@, ClassificationRow(issue_id, attempt)),
              !.issues[issue_id].status = StatusAfterClassification(@)]

\* the part of add_llm_classification after its commit
WithResponse(d, classification_id, r) ==
    IF r.kind = "return"
    THEN [db |-> r.db, kind |-> "return", value |-> <<classification_id, r.value[1]>>, exc |-> ""]
    ELSE Returned(d, classification_id)

add_llm_classification(d, issue_id, attempt, full) ==
    IF ~d.tables THEN Raised(d, "OperationalError")
    ELSE IF ~IssueExists(d, issue_id) THEN Raised(d, "ValueError")
    ELSE IF full
    THEN WithResponse(Classified(d, issue_id, attempt), Len(d.llm_classifications) + 1,
                      add_llm_response(Classified(d, issue_id, attempt),
                                       Len(d.llm_classifications) + 1))
    ELSE Returned(Classified(d, issue_id, attempt), Len(d.llm_classifications) + 1)

update_llm_classification_review(d, classification_id, user_agrees) ==
    IF ~d.tables THEN Raised(d, "OperationalError")
    ELSE IF ~ClassificationExists(d, classification_id) THEN Returned(d, FALSE)
    ELSE Returned([d EXCEPT !.llm_classifications[classification_id].user_agrees = <<user_agrees>>],
                  TRUE)

valid_classifications == {"false positive", "need fixing", "very serious"}

set_issue_true_classification(d, issue_id, classification) ==
    IF classification \notin valid_classifications THEN Raised(d, "ValueError")
    ELSE IF ~d.tables THEN Raised(d, "OperationalError")
    ELSE IF ~IssueExists(d, issue_id) THEN Returned(d, FALSE)
    ELSE Returned([d EXCEPT !.issues[issue_id] =
                                [status |-> "reviewed", true_classification |-> <<classification>>]],
                  TRUE)

\* no call of data_manager has been made since DB_PATH was set
\* ---- get_llm_statistics ----

\* the rows of from_base (no filters): the classifications joined with their
\* issue, where the issue has a true classification
JoinedRows(d) ==
    {k \in 1..Len(d.llm_classifications) :
        d.issues[d.llm_classifications[k].issue_id].true_classification # <<>>}

\* the column is_correct of select_base
is_correct(d, k) ==
    IF <<d.llm_classifications[k].classification>> =
       d.issues[d.llm_classifications[k].issue_id].true_classification
    THEN 1 ELSE 0

\* SUM(CASE WHEN lc.classification = i.true_classification THEN 1 ELSE 0 END)
CorrectAmong(d, rows) == Cardinality({k \in rows : is_correct(d, k) = 1})

\* round(correct / total, 4) if total > 0 else 0, in ten-thousandths
Accuracy(correct, total) ==
    IF total > 0 THEN (2 * 10000 * correct + total) \div (2 * total) ELSE 0

\* COUNT(*) and SUM(...) over the joined rows; SUM over no row is NULL
OverallAccuracy(d) ==
    [total |-> Cardinality(JoinedRows(d)),
     correct |-> IF JoinedRows(d) = {} THEN <<>> ELSE <<CorrectAmong(d, JoinedRows(d))>>,
     accuracy |-> Accuracy(CorrectAmong(d, JoinedRows(d)), Cardinality(JoinedRows(d)))]

\* the values of a grouping column among the joined rows
GroupKeys(d, column) == {d.llm_classifications[k][column] : k \in JoinedRows(d)}

\* GROUP BY column with bare columns in the SELECT list: one row comes back
\* for each group, holding the values of some row of the group
FetchedRows(d, column) ==
    {f \in [GroupKeys(d, column) -> JoinedRows(d)] :
        \A g \in GroupKeys(d, column) : d.llm_classifications[f[g]][column] = g}

\* the loop over cursor.fetchall(): total += 1, correct += row['is_correct']
GroupStats(d, fetched) ==
    [g \in DOMAIN fetched |->
        [total |-> 1, correct |-> is_correct(d, fetched[g]),
         accuracy |-> Accuracy(is_correct(d, fetched[g]), 1)]]

\* SELECT true_classification, COUNT(*) FROM issues ... GROUP BY true_classification
ClassificationDistribution(d) ==
    [c \in {d.issues[i].true_classification[1] :
               i \in {j \in 1..Len(d.issues) : d.issues[j].true_classification # <<>>}} |->
        Cardinality({i \in 1..Len(d.issues) : d.issues[i].true_classification = <<c>>})]

\* models, strategies and templates are the rows the three GROUP BY queries fetch
get_llm_statistics(d, models, strategies, templates) ==
    IF ~d.tables THEN Raised(d, "OperationalError")
    ELSE Returned(d, [overall_accuracy |-> OverallAccuracy(d),
                      llm_models |-> GroupStats(d, models),
                      context_strategies |-> GroupStats(d, strategies),
                      prompt_templates |-> GroupStats(d, templates),
                      classification_distribution |-> ClassificationDistribution(d)])

NoOutcome == [op |-> "", args |-> <<>>, kind |-> "", value |-> <<>>, exc |-> ""]
Outcome(op, args, r) ==
    [op |-> op, args |-> args, kind |-> r.kind, value |-> r.value, exc |-> r.exc]

\* the process has just started: nothing of data_manager has been called
Started ==
    /\ DB_PATH = DefaultDbPath
    /\ DB_INITIALIZED = FALSE
    /\ db = [p \in DbPaths |-> NoTables]
    /\ out = NoOutcome

\* the Run LLM page has not processed anything (02_Run_LLM.py lines 26-35)
NoSession ==
    [processing_issues |-> FALSE, issues |-> <<>>, strategy |-> "",
     current_issue_index |-> 0, processed_issues |-> <<>>, failed_issues |-> <<>>,
     pc |-> "idle", stopped |-> FALSE, last |-> <<>>]

\* no thread is inside the ContextBuilder
NoThreads == <<>>

Quiet ==
    /\ session = NoSession
    /\ threads = NoThreads

----------------------------------------------------------------------------
(* The environment: a project tree /p, a sibling /px, an unrelated /o and  *)
(* the working directory /w                                                *)

P_root == << <<"p">> >>
P_primary == << <<"p">>, <<"a", ".", "c">> >>        \* /p/a.c, rewritten by WriteFile
P_main == << <<"p">>, <<"m", ".", "c">> >>           \* /p/m.c, a file with #include lines
P_header == << <<"p">>, <<"b", ".", "h">> >>         \* /p/b.h, absent, a file or a link
P_dir == << <<"p">>, <<"d">> >>                      \* /p/d, a directory
P_link == << <<"p">>, <<"l", ".", "c">> >>           \* /p/l.c -> /p/a.c
P_unreadable == << <<"p">>, <<"u", ".", "c">> >>     \* /p/u.c, open() fails
P_missing == << <<"p">>, <<"n", ".", "c">> >>        \* /p/n.c does not exist
P_sibling == << <<"p", "x">>, <<"e", ".", "h">> >>   \* /px/e.h
P_outside == << <<"o">>, <<"s", ".", "c">> >>        \* /o/s.c
P_template == AbsPath(TemplatePath)                  \* /w/prompts/file_with_includes_context.txt

BlankLine == <<>>
PlainLine == <<"y">>
StatementLine == <<"x", ";">>
SignatureLine == <<"t", " ", "f", "(", ")", " ", "{">>
CloseLine == <<"}">>
LineAlphabet == {BlankLine, PlainLine, StatementLine, SignatureLine, CloseLine}

\* the contents WriteFile gives /p/a.c
PrimaryContents == UNION {[1..n -> LineAlphabet] : n \in 0..MaxFileLen}

LocalIncludeLine == IncludeKeyword \o <<" ", "\"", "b", ".", "h", "\"">>
StdIncludeLine == IncludeKeyword \o <<" ", "<", "m", "a", "p", ">">>
MainLines == <<LocalIncludeLine, StdIncludeLine, PlainLine>>
HeaderLines == << <<"z">>, BlankLine >>
SecretLines == << <<"s">> >>

GoodTemplate == << <<"{", "source_code_context", "}">>, <<"{", "included_files_context", "}">> >>
BadTemplate == << <<"{", "code", "}">> >>

InitialFs ==
    (P_root :> DirNode) @@ (P_primary :> FileNode(<<>>, TRUE))
    @@ (P_main :> FileNode(MainLines, FALSE)) @@ (P_header :> NoNode)
    @@ (P_dir :> DirNode) @@ (P_link :> LinkNode(P_primary))
    @@ (P_unreadable :> UnreadableFile) @@ (P_missing :> NoNode)
    @@ (<< <<"p", "x">> >> :> DirNode) @@ (P_sibling :> FileNode(SecretLines, FALSE))
    @@ (<< <<"o">> >> :> DirNode) @@ (P_outside :> FileNode(SecretLines, TRUE))
    @@ (Cwd :> DirNode) @@ (Front(P_template) :> DirNode) @@ (P_template :> NoNode)

\* the paths a caller asks for besides /p/a.c and /p/m.c
OtherPaths ==
    {RawPath(TRUE, P_header), RawPath(TRUE, P_dir), RawPath(TRUE, P_link),
     RawPath(TRUE, P_unreadable), RawPath(TRUE, P_missing), RawPath(TRUE, P_sibling),
     RawPath(TRUE, P_outside),
     RawPath(TRUE, << <<"p">>, DotDot, <<"p", "x">>, <<"e", ".", "h">> >>),   \* /p/../px/e.h
     RawPath(FALSE, << DotDot, <<"o">>, <<"s", ".", "c">> >>),               \* ../o/s.c
     RawPath(FALSE, << <<"n", ".", "c">> >>),                                \* n.c
     NotAPath}

KnownStrategies == {"fixed_lines", "function_scope", "file_scope", "file_with_includes"}
UnknownStrategies == {"multiagent_scope", "invalid_strategy"}

Opt(S) == {<<>>} \cup {<<v>> : v \in S}

----------------------------------------------------------------------------
(* The state machine *)

Idle == [kind |-> "idle", text |-> EmptyText, exc |-> ""]
NoRequest == [file_path |-> NotAPath, line_number |-> 0, strategy |-> "", kw |-> NoKwargs]

Init ==
    /\ fs = InitialFs
    /\ cache = <<>>
    /\ req = NoRequest
    /\ res = Idle
    /\ reads = {}
    /\ ran = {}
    /\ scans = 0
    /\ Started
    /\ Quiet

\* the caller is between two calls
Between == res = Idle

\* the header and the template are at their initial state
PlainWorld == fs[P_header] = NoNode /\ fs[P_template] = NoNode

\* an editor rewrites /p/a.c
WriteFile(lines) ==
    /\ Between
    /\ PlainWorld
    /\ fs' = [fs EXCEPT ![P_primary] = FileNode(lines, TRUE)]
    /\ UNCHANGED <<cache, req, res, reads, ran, scans>>
    /\ UNCHANGED <<store, callers>>

\* /p/b.h is created, replaced by a link to /px/e.h, or deleted
SetHeader(node) ==
    /\ Between
    /\ fs[P_primary] = InitialFs[P_primary]
    /\ fs[P_header] # node
    /\ fs' = [fs EXCEPT ![P_header] = node]
    /\ UNCHANGED <<cache, req, res, reads, ran, scans>>
    /\ UNCHANGED <<store, callers>>

\* the prompt template is installed or removed
SetTemplate(node) ==
    /\ Between
    /\ fs[P_primary] = InitialFs[P_primary]
    /\ fs[P_template] # node
    /\ fs' = [fs EXCEPT ![P_template] = node]
    /\ UNCHANGED <<cache, req, res, reads, ran, scans>>
    /\ UNCHANGED <<store, callers>>

\* one call of build_context
Call(file_path, line_number, strategy, kw) ==
    /\ Between
    /\ \E r \in {build_context(fs, cache, file_path, line_number, strategy, kw)} :
          /\ res' = [kind |-> r.kind, text |-> r.text, exc |-> r.exc]
          /\ reads' = r.reads
          /\ ran' = r.ran
    /\ req' = [file_path |-> file_path, line_number |-> line_number,
               strategy |-> strategy, kw |-> kw]
    /\ cache' = cache_after_build_context(fs, cache, file_path, strategy)
    /\ scans + scans_in_build_context(fs, cache, file_path, strategy) <= MaxScans
    /\ scans' = scans + scans_in_build_context(fs, cache, file_path, strategy)
    /\ UNCHANGED fs
    /\ UNCHANGED <<store, callers>>

\* the caller has looked at what the call gave back and goes on
Continue ==
    /\ ~Between
    /\ req' = NoRequest
    /\ res' = Idle
    /\ reads' = {}
    /\ ran' = {}
    /\ UNCHANGED <<fs, cache, scans>>
    /\ UNCHANGED <<store, callers>>

FixedLines ==
    \E line_number \in 1..MaxLine, lb \in Opt(0..MaxBefore), la \in Opt(0..MaxAfter) :
        Call(RawPath(TRUE, P_primary), line_number, "fixed_lines", Kwargs(lb, la, <<>>, <<>>))

FunctionScope ==
    \E line_number \in 1..MaxLine, ml \in Opt(1..MaxMaxLines), w \in Opt({0}) :
        Call(RawPath(TRUE, P_primary), line_number, "function_scope", Kwargs(w, w, ml, <<>>))

FileScope ==
    \E line_number \in 1..MaxLine, ml \in Opt(1..MaxMaxLines), hl \in Opt(BOOLEAN) :
        Call(RawPath(TRUE, P_primary), line_number, "file_scope", Kwargs(<<>>, <<>>, ml, hl))

FileWithIncludes ==
    \E file_path \in {RawPath(TRUE, P_primary), RawPath(TRUE, P_main)}, line_number \in 1..MaxLine :
        Call(file_path, line_number, "file_with_includes", NoKwargs)

UnknownStrategy ==
    \E strategy \in UnknownStrategies :
        Call(RawPath(TRUE, P_primary), 1, strategy, NoKwargs)

OtherPath ==
    \E file_path \in OtherPaths, strategy \in KnownStrategies \cup UnknownStrategies :
        Call(file_path, 1, strategy, NoKwargs)

Next ==
    \/ \E lines \in PrimaryContents : WriteFile(lines)
    \/ \E node \in {NoNode, FileNode(HeaderLines, TRUE), LinkNode(P_sibling)} : SetHeader(node)
    \/ \E node \in {NoNode, FileNode(GoodTemplate, TRUE), FileNode(BadTemplate, TRUE)} :
          SetTemplate(node)
    \/ FixedLines
    \/ FunctionScope
    \/ FileScope
    \/ FileWithIncludes
    \/ UnknownStrategy
    \/ OtherPath
    \/ Continue

Spec == Init /\ [][Next]_vars

----------------------------------------------------------------------------
(* A second environment for the include graph: a project /p whose main     *)
(* file m.cxx is rewritten with #include lines while headers come and go  *)

MaxIncludes == 2     \* lines of the main file m.cxx

P_cxx == << <<"p">>, <<"m", ".", "c", "x", "x">> >>           \* /p/m.cxx, not indexed
P_map == << <<"p">>, <<"m", "a", "p", ".", "h">> >>           \* /p/map.h
P_hpp == << <<"p">>, <<"c", ".", "h", "p", "p">> >>           \* /p/c.hpp
P_dotted == << <<"p">>, <<"m", "a", "p", ".", "x", ".", "h">> >>    \* /p/map.x.h

ExtlessIncludeLine == IncludeKeyword \o <<" ", "<", "c", ">">>
DottedIncludeLine == IncludeKeyword \o <<" ", "\"", "m", "a", "p", ".", "x", ".", "h", "\"">>
StdHIncludeLine == IncludeKeyword \o <<"\"", "s", "/", "m", "a", "p", ".", "h", "\"">>
IncludeAlphabet ==
    {LocalIncludeLine, StdIncludeLine, ExtlessIncludeLine, DottedIncludeLine,
     StdHIncludeLine, PlainLine}

\* the contents WriteMain gives /p/m.cxx
MainContents == UNION {[1..n -> IncludeAlphabet] : n \in 1..MaxIncludes}

\* the headers of the project and what each holds when it exists
Headers == {P_header, P_map, P_hpp, P_dotted}
HeaderContent(p) ==
    IF p = P_header THEN HeaderLines
    ELSE IF p = P_map THEN << <<"v">> >>
    ELSE IF p = P_hpp THEN << <<"c">> >>
    ELSE << <<"d">> >>

IncludeFs ==
    (P_root :> DirNode) @@ (P_cxx :> FileNode(<<LocalIncludeLine>>, TRUE))
    @@ [p \in Headers |-> NoNode] @@ (Cwd :> DirNode)

IncludeInit ==
    /\ fs = IncludeFs
    /\ cache = <<>>
    /\ req = NoRequest
    /\ res = Idle
    /\ reads = {}
    /\ ran = {}
    /\ scans = 0
    /\ Started
    /\ Quiet

\* an editor rewrites /p/m.cxx
WriteMain(lines) ==
    /\ Between
    /\ fs[P_cxx] # FileNode(lines, TRUE)
    /\ fs' = [fs EXCEPT ![P_cxx] = FileNode(lines, TRUE)]
    /\ UNCHANGED <<cache, req, res, reads, ran, scans>>
    /\ UNCHANGED <<store, callers>>

\* a header is created
CreateHeader(p) ==
    /\ Between
    /\ fs[p] = NoNode
    /\ fs' = [fs EXCEPT ![p] = FileNode(HeaderContent(p), TRUE)]
    /\ UNCHANGED <<cache, req, res, reads, ran, scans>>
    /\ UNCHANGED <<store, callers>>

\* a header is deleted
DeleteHeader(p) ==
    /\ Between
    /\ fs[p] # NoNode
    /\ fs' = [fs EXCEPT ![p] = NoNode]
    /\ UNCHANGED <<cache, req, res, reads, ran, scans>>
    /\ UNCHANGED <<store, callers>>

\* build_context(m.cxx, line_number, "file_with_includes")
IncludeCall(line_number) == Call(RawPath(TRUE, P_cxx), line_number, "file_with_includes", NoKwargs)

IncludeNext ==
    \/ \E lines \in MainContents : WriteMain(lines)
    \/ \E p \in Headers : CreateHeader(p)
    \/ \E p \in Headers : DeleteHeader(p)
    \/ IncludeCall(1)
    \/ Continue

SpecIncludes == IncludeInit /\ [][IncludeNext]_vars

----------------------------------------------------------------------------
(* A third environment, for the issue store: one process that configures   *)
(* DB_PATH, calls init_db and then the writers of data_manager, as the     *)
(* application and each test's setUp do                                    *)

\* the issue dicts a batch is made of: one with every required key, and
\* the sample of the tests, whose keys lack the cppcheck_ prefix
CompleteIssue == RequiredFields
SampleIssue == {"file", "line", "severity", "id", "summary"}
IssueDicts == {CompleteIssue, SampleIssue}
RECURSIVE Batches(_)
Batches(n) ==
    IF n = 0 THEN {<<>>}
    ELSE Batches(n - 1) \cup {Append(b, i) : b \in {x \in Batches(n - 1) : Len(x) = n - 1}, i \in IssueDicts}

\* the true classifications a reviewer submits
SubmittedClassifications == {"false positive", "unsure"}

\* the answer a reviewer gives to "do you agree with the LLM"
ReviewAnswers == {TRUE}

DataInit ==
    /\ fs = InitialFs
    /\ cache = <<>>
    /\ req = NoRequest
    /\ res = Idle
    /\ reads = {}
    /\ ran = {}
    /\ scans = 0
    /\ Started
    /\ Quiet

\* the rows the model follows
Attempt(llm_model_name, classification) ==
    [llm_model_name |-> llm_model_name, context_strategy |-> "fixed_lines",
     prompt_template |-> "classification_default.txt", classification |-> classification]

SampleAttempt == Attempt("m1", "false positive")

WithinBounds(d, rows) ==
    /\ Len(d.issues) <= MaxIssues
    /\ Len(d.llm_classifications) <= rows

\* init_db has been called since DB_PATH was last set
Prepared == out # NoOutcome

\* a call of a writer of data_manager that gives back r
WriteUpTo(op, args, r, rows) ==
    /\ Prepared
    /\ WithinBounds(r.db, rows)
    /\ db' = [db EXCEPT ![DB_PATH] = r.db]
    /\ out' = Outcome(op, args, r)
    /\ UNCHANGED <<DB_PATH, DB_INITIALIZED>>
    /\ UNCHANGED <<engine, callers>>

Write(op, args, r) == WriteUpTo(op, args, r, MaxClassifications)

\* DB_DIR and DB_PATH are pointed at another database file
SetDbPath(p) ==
    /\ p # DB_PATH
    /\ DB_PATH' = p
    /\ out' = NoOutcome
    /\ UNCHANGED <<DB_INITIALIZED, db>>
    /\ UNCHANGED <<engine, callers>>

InitDb ==
    /\ \E r \in {init_db(DB_INITIALIZED, db[DB_PATH])} :
          /\ db' = [db EXCEPT ![DB_PATH] = r.db]
          /\ DB_INITIALIZED' = r.initialized
    /\ out' = Outcome("init_db", <<>>, Returned(db[DB_PATH], "None"))
    /\ UNCHANGED DB_PATH
    /\ UNCHANGED <<engine, callers>>

AddIssues ==
    \E issues \in Batches(MaxBatch) :
        Write("add_issues", <<issues>>, add_issues(db[DB_PATH], issues))

AddLlmClassification ==
    \E issue_id \in 1..(MaxIssues + 1), full \in BOOLEAN :
        Write("add_llm_classification", <<issue_id, full>>,
              add_llm_classification(db[DB_PATH], issue_id, SampleAttempt, full))

UpdateLlmClassificationReview ==
    \E classification_id \in 1..(MaxClassifications + 1), user_agrees \in ReviewAnswers :
        Write("update_llm_classification_review", <<classification_id, user_agrees>>,
              update_llm_classification_review(db[DB_PATH], classification_id, user_agrees))

SetIssueTrueClassification ==
    \E issue_id \in 1..(MaxIssues + 1), classification \in SubmittedClassifications :
        Write("set_issue_true_classification", <<issue_id, classification>>,
              set_issue_true_classification(db[DB_PATH], issue_id, classification))

DataNext ==
    \/ \E p \in DbPaths : SetDbPath(p)
    \/ InitDb
    \/ AddIssues
    \/ AddLlmClassification
    \/ UpdateLlmClassificationReview
    \/ SetIssueTrueClassification

SpecData == DataInit /\ [][DataNext]_vars

----------------------------------------------------------------------------
(* A fourth environment, for the keyword options: the primary file a.c is  *)
(* rewritten and every strategy is called with every subset of the         *)
(* options lines_before, lines_after, max_lines, highlight_issue_line      *)

OptionSets ==
    {Kwargs(lb, la, ml, hl) :
        lb \in Opt({0}), la \in Opt({0}), ml \in Opt({MaxMaxLines}), hl \in Opt({TRUE})}

OptionCall ==
    \E strategy \in KnownStrategies, line_number \in 1..2, kw \in OptionSets :
        Call(RawPath(TRUE, P_primary), line_number, strategy, kw)

OptionsNext ==
    \/ \E lines \in PrimaryContents : WriteFile(lines)
    \/ OptionCall
    \/ Continue

SpecOptions == Init /\ [][OptionsNext]_vars

----------------------------------------------------------------------------
(* A fifth environment, for the order in which an include is resolved: the  *)
(* headers c.h, c.hpp and b.h come and go while m.cxx includes <c>,        *)
(* "c.hpp" and "b.h"                                                       *)

P_ch == << <<"p">>, <<"c", ".", "h">> >>                      \* /p/c.h

HppIncludeLine == IncludeKeyword \o <<" ", "\"", "c", ".", "h", "p", "p", "\"">>
ResolveAlphabet == {ExtlessIncludeLine, HppIncludeLine, LocalIncludeLine}
ResolveContents == UNION {[1..n -> ResolveAlphabet] : n \in 1..MaxIncludes}
ResolveHeaders == {P_ch, P_hpp, P_header}

ResolveFs ==
    (P_root :> DirNode) @@ (P_cxx :> FileNode(<<LocalIncludeLine>>, TRUE))
    @@ [p \in ResolveHeaders |-> NoNode] @@ (Cwd :> DirNode)

ResolveInit ==
    /\ fs = ResolveFs
    /\ cache = <<>>
    /\ req = NoRequest
    /\ res = Idle
    /\ reads = {}
    /\ ran = {}
    /\ scans = 0
    /\ Started
    /\ Quiet

ResolveNext ==
    \/ \E lines \in ResolveContents : WriteMain(lines)
    \/ \E p \in ResolveHeaders : CreateHeader(p)
    \/ \E p \in ResolveHeaders : DeleteHeader(p)
    \/ IncludeCall(1)
    \/ Continue

SpecResolve == ResolveInit /\ [][ResolveNext]_vars

\* ---- the environment of the statistics: classifications by several models,
\* reviews, and calls of get_llm_statistics ----

MaxStatRows == 2

ModelNames == {"m1", "m2"}
LlmClassifications == {"false positive", "need fixing"}

StatAddLlmClassification ==
    \E issue_id \in 1..MaxIssues, llm_model_name \in ModelNames,
       classification \in LlmClassifications :
        WriteUpTo("add_llm_classification", <<issue_id, llm_model_name, classification>>,
                  add_llm_classification(db[DB_PATH], issue_id,
                                         Attempt(llm_model_name, classification), FALSE),
                  MaxStatRows)

GetLlmStatistics ==
    /\ Prepared
    /\ \E models \in FetchedRows(db[DB_PATH], "llm_model_name"),
          strategies \in FetchedRows(db[DB_PATH], "context_strategy"),
          templates \in FetchedRows(db[DB_PATH], "prompt_template") :
          out' = Outcome("get_llm_statistics", <<>>,
                         get_llm_statistics(db[DB_PATH], models, strategies, templates))
    /\ UNCHANGED <<DB_PATH, DB_INITIALIZED, db>>
    /\ UNCHANGED <<engine, callers>>

StatNext ==
    \/ InitDb
    \/ AddIssues
    \/ StatAddLlmClassification
    \/ SetIssueTrueClassification
    \/ GetLlmStatistics

SpecStatistics == DataInit /\ [][StatNext]_vars

----------------------------------------------------------------------------
(* pages/02_Run_LLM.py: process_issues *)

CONTEXT_LINES_COUNT == 5

\* os.path.join(config.PROJECT_ROOT_DIR, file_path), file_path relative
abs_file_path(file_path) == RawPath(TRUE, P_root \o file_path)

\* LLMService.classify_issue, reply being what generate_text gives: <<>> when
\* the API call fails, else the classification the response text holds.
\* extract_json checks it against the enum of classification_schema; the
\* value returned is the tuple (result, response_metrics).
classify_issue(reply) ==
    IF reply = <<>> \/ reply[1] \notin valid_classifications
    THEN [kind |-> "raise", type |-> "", classification |-> "", exc |-> "RuntimeError"]
    ELSE [kind |-> "return", type |-> "tuple", classification |-> reply[1], exc |-> ""]

\* what one pass of the loop body leaves: the issue in processed_issues or in
\* failed_issues, and the database
Processed(d) == [list |-> "processed_issues", error |-> "", db |-> d]
Failed(d, error) == [list |-> "failed_issues", error |-> error, db |-> d]

\* the classification saved: "unknown" replaces one not in the valid list
SavedClassification(classification) ==
    IF classification \in valid_classifications THEN classification ELSE "unknown"

\* from add_llm_classification to the end of the try block
AfterStorage(d, stored) ==
    IF stored.kind = "raise" THEN Failed(d, stored.exc) ELSE Processed(stored.db)

\* from llm_result.get('classification', 'unknown') on: only a dict has get
AfterLlm(d, issue, strategy, llm_result) ==
    IF llm_result.kind = "raise" THEN Failed(d, llm_result.exc)
    ELSE IF llm_result.type # "dict" THEN Failed(d, "AttributeError")
    ELSE AfterStorage(d, add_llm_classification(d, issue.id,
                             [llm_model_name |-> "m1", context_strategy |-> strategy,
                              prompt_template |-> "classification_default.txt",
                              classification |-> SavedClassification(llm_result.classification)],
                             FALSE))

\* from the test of code_context on
AfterContext(d, issue, strategy, code_context, reply) ==
    IF code_context.kind = "raise" THEN Failed(d, code_context.exc)
    ELSE IF code_context.kind = "None" THEN Failed(d, "ValueError")
    ELSE AfterLlm(d, issue, strategy, classify_issue(reply))

\* the body of the try block for one issue
TryIssue(f, c, d, issue, strategy, reply) ==
    IF ~is_path_safe(f, abs_file_path(issue.cppcheck_file), ProjectRoot)
    THEN Failed(d, "ValueError")
    ELSE AfterContext(d, issue, strategy,
                      build_context(f, c, abs_file_path(issue.cppcheck_file),
                                    issue.cppcheck_line, strategy,
                                    Kwargs(<<CONTEXT_LINES_COUNT>>, <<CONTEXT_LINES_COUNT>>,
                                           <<>>, <<>>)),
                      reply)

\* what the pass met, kept to state the properties of the loop
Met(f, c, issue, strategy, reply) ==
    [id |-> issue.id,
     safe |-> is_path_safe(f, abs_file_path(issue.cppcheck_file), ProjectRoot),
     context |-> IF is_path_safe(f, abs_file_path(issue.cppcheck_file), ProjectRoot)
                 THEN build_context(f, c, abs_file_path(issue.cppcheck_file),
                                    issue.cppcheck_line, strategy,
                                    Kwargs(<<CONTEXT_LINES_COUNT>>, <<CONTEXT_LINES_COUNT>>,
                                           <<>>, <<>>)).kind
                 ELSE "",
     classified |-> classify_issue(reply).kind = "return"]

\* the session after a pass: the except clause catches every Exception
AfterPassDroppingFailures(s, issue, passed, met) ==
    [s EXCEPT !.current_issue_index = @ + 1,
              !.processed_issues = IF passed.list = "processed_issues"
                                   THEN Append(@, issue.id) ELSE @,
              !.last = <<met>>]

AfterPass(s, issue, passed, met) ==
    [s EXCEPT !.current_issue_index = @ + 1,
              !.processed_issues = IF passed.list = "processed_issues"
                                   THEN Append(@, issue.id) ELSE @,
              !.failed_issues = IF passed.list = "failed_issues"
                                THEN Append(@, [id |-> issue.id, error |-> passed.error])
                                ELSE @,
              !.last = <<met>>]

\* ---- the environment of the batch: a prepared database with issues, the
\* user starting and stopping batches, the replies of the LLM ----

BatchFiles ==
    {<< <<"m", ".", "c">> >>,              \* m.c
     << <<"u", ".", "c">> >>,              \* u.c, open() fails
     << DotDot, <<"o">>, <<"s", ".", "c">> >>}   \* ../o/s.c

\* the issues the page selected: some of the first n rows of the database, in
\* the order of their ids
RECURSIVE Selections(_)
Selections(n) ==
    IF n = 0 THEN {<<>>}
    ELSE Selections(n - 1)
         \cup {Append(b, [id |-> n, cppcheck_file |-> file, cppcheck_line |-> 1]) :
                  b \in Selections(n - 1), file \in BatchFiles}

BatchStrategies == {"fixed_lines", "file_with_includes", "invalid_strategy"}
LlmReplies == Opt({"false positive", "maybe"})

\* on_start_processing_click and the start of process_issues; the first
\* batch of a session is followed
StartProcessing ==
    /\ Prepared
    /\ session.pc = "idle"
    /\ \E issues \in Selections(Len(db[DB_PATH].issues)), strategy \in BatchStrategies :
          session' = [NoSession EXCEPT !.processing_issues = TRUE, !.issues = issues,
                                       !.strategy = strategy, !.pc = "running"]
    /\ cache' = <<>>
    /\ scans' = 0
    /\ UNCHANGED <<fs, req, res, reads, ran>>
    /\ UNCHANGED <<store, threads>>

\* one pass of the loop of process_issues
ProcessIssue ==
    /\ session.pc = "running"
    /\ session.processing_issues
    /\ session.current_issue_index < Len(session.issues)
    /\ \E reply \in LlmReplies, issue \in {session.issues[session.current_issue_index + 1]} :
          \E passed \in {TryIssue(fs, cache, db[DB_PATH], issue, session.strategy, reply)} :
             /\ session' = AfterPass(session, issue, passed,
                                     Met(fs, cache, issue, session.strategy, reply))
             /\ db' = [db EXCEPT ![DB_PATH] = passed.db]
             /\ cache' = cache_after_build_context(fs, cache, abs_file_path(issue.cppcheck_file),
                                                   session.strategy)
             /\ scans' = scans + scans_in_build_context(fs, cache,
                                                        abs_file_path(issue.cppcheck_file),
                                                        session.strategy)
    /\ UNCHANGED <<fs, req, res, reads, ran>>
    /\ UNCHANGED <<DB_PATH, DB_INITIALIZED, out, threads>>

\* the loop ends, by break or at the end of the list
FinishProcessing ==
    /\ session.pc = "running"
    /\ ~session.processing_issues \/ session.current_issue_index = Len(session.issues)
    /\ session' = [session EXCEPT !.processing_issues = FALSE, !.pc = "done"]
    /\ UNCHANGED <<engine, store, threads>>

\* the user presses "Stop Processing"
StopProcessing ==
    /\ session.pc = "running"
    /\ session.processing_issues
    /\ session' = [session EXCEPT !.processing_issues = FALSE, !.stopped = TRUE]
    /\ UNCHANGED <<engine, store, threads>>

ProcessNext ==
    \/ InitDb
    \/ AddIssues
    \/ StartProcessing
    \/ ProcessIssue
    \/ FinishProcessing
    \/ StopProcessing

SpecProcess == DataInit /\ [][ProcessNext]_vars

----------------------------------------------------------------------------
(* Threads sharing one ContextBuilder: the steps of a file_with_includes    *)
(* call. The test of _file_cache, every insertion of _build_file_cache and  *)
(* the rest of the call are steps of their own; nothing orders the steps of *)
(* two threads.                                                             *)

MaxThreads == 2
Threads == 1..MaxThreads

IdleThread == [pc |-> "idle", todo |-> <<>>, res |-> Idle, reads |-> {}, raced |-> FALSE]

\* the orders in which os.walk may yield the files that _build_file_cache inserts
RECURSIVE Orders(_)
Orders(paths) ==
    IF paths = {} THEN {<<>>}
    ELSE UNION {{<<p>> \o rest : rest \in Orders(paths \ {p})} : p \in paths}

WalkOrders(f) ==
    Orders({p \in Walked(f, AbsPath(ProjectRoot)) : HasSourceExtension(Last(p))})

\* self._file_cache[rel_path] = [root, file]
Inserted(c, p) ==
    [k \in DOMAIN c \cup {RelStr(p, AbsPath(ProjectRoot))} |->
        IF k = RelStr(p, AbsPath(ProjectRoot)) THEN p ELSE c[k]]

\* the loop of _build_file_cache has no file left to insert
FillingDoneEarly(todo) == TRUE

FillingDone(todo) == todo = <<>>

\* the call after the cache test and the build: main file, includes, template
AfterCacheBuilt(f, c, file_path, line_number) ==
    WithMainFile(f, c, file_path, line_number,
                 read_file_lines(f, AbsPath(file_path), 1, Inf),
                 ReadsOf(f, AbsPath(file_path)))

ThreadFile == RawPath(TRUE, P_cxx)

\* a thread enters _build_file_with_includes_context: path guard, then
\* "if not self._file_cache", and the start of os.walk when it is empty
EnterCall(t) ==
    /\ threads[t].pc = "idle"
    /\ is_path_safe(fs, ThreadFile, ProjectRoot)
    /\ IF DOMAIN cache = {}
       THEN /\ scans < MaxScans
            /\ scans' = scans + 1
            /\ \E todo \in WalkOrders(fs) :
                  threads' = [threads EXCEPT ![t].pc = "filling", ![t].todo = todo]
       ELSE /\ scans' = scans
            /\ threads' = [threads EXCEPT ![t].pc = "resolving"]
    /\ UNCHANGED <<fs, cache, req, res, reads, ran>>
    /\ UNCHANGED <<store, session>>

\* one pass of the loops of _build_file_cache, or their end
Fill(t) ==
    /\ threads[t].pc = "filling"
    /\ IF threads[t].todo = <<>>
       THEN /\ cache' = cache
            /\ threads' = [threads EXCEPT ![t].pc = "resolving"]
       ELSE /\ cache' = Inserted(cache, Head(threads[t].todo))
            /\ threads' = [threads EXCEPT
                              ![t].todo = Tail(@),
                              ![t].pc = IF FillingDone(Tail(threads[t].todo))
                                        THEN "resolving" ELSE "filling"]
    /\ UNCHANGED <<fs, req, res, reads, ran, scans>>
    /\ UNCHANGED <<store, session>>

\* the rest of the call, against the _file_cache as it is now; raced tells
\* whether another thread was filling the cache meanwhile
Resolve(t) ==
    /\ threads[t].pc = "resolving"
    /\ \E r \in {AfterCacheBuilt(fs, cache, ThreadFile, 1)} :
          threads' = [threads EXCEPT
                        ![t].pc = "done",
                        ![t].res = [kind |-> r.kind, text |-> r.text, exc |-> r.exc],
                        ![t].reads = r.reads,
                        ![t].raced = \E u \in Threads \ {t} : threads[u].pc = "filling"]
    /\ UNCHANGED engine
    /\ UNCHANGED <<store, session>>

\* the caller has taken the result
Return(t) ==
    /\ threads[t].pc = "done"
    /\ threads' = [threads EXCEPT ![t] = IdleThread]
    /\ UNCHANGED engine
    /\ UNCHANGED <<store, session>>

\* ---- the environment of the threads: a project prepared before the first
\* call, then calls from every thread ----

ThreadHeaders == {P_ch, P_header}
ThreadContents == {<<LocalIncludeLine>>, <<HppIncludeLine, LocalIncludeLine>>}

Untouched == DOMAIN cache = {} /\ \A t \in Threads : threads[t].pc = "idle"

ThreadInit ==
    /\ fs = ResolveFs
    /\ cache = <<>>
    /\ req = NoRequest
    /\ res = Idle
    /\ reads = {}
    /\ ran = {}
    /\ scans = 0
    /\ Started
    /\ session = NoSession
    /\ threads = [t \in Threads |-> IdleThread]

ThreadNext ==
    \/ Untouched /\ \E lines \in ThreadContents : WriteMain(lines)
    \/ Untouched /\ \E p \in ThreadHeaders : CreateHeader(p)
    \/ Untouched /\ \E p \in ThreadHeaders : DeleteHeader(p)
    \/ \E t \in Threads : EnterCall(t)
    \/ \E t \in Threads : Fill(t)
    \/ \E t \in Threads : Resolve(t)
    \/ \E t \in Threads : Return(t)

SpecThreads == ThreadInit /\ [][ThreadNext]_vars

----------------------------------------------------------------------------
(* The properties.  Each is stated over the last request req, what it gave  *)
(* back (res), the files it read (reads) and the strategy methods it        *)
(* entered (ran), in the filesystem fs the call saw.                        *)

\* a call has returned and the caller has not gone on yet
Called == ~Between

\* the file the request names
Target == AbsPath(req.file_path)
TargetLines == Stat(fs, Target).lines

\* the request passed the guard and names a file that opens and decodes
Guarded == is_path_safe(fs, req.file_path, ProjectRoot)
Readable == Guarded /\ CanRead(fs, Target)

\* the file lines lo..hi, one output line each, written "<n>: <text>"
NumberedRange(lines, lo, hi) ==
    [i \in 1..(hi - lo + 1) |-> Str(lo + i - 1) \o <<":", " ">> \o lines[lo + i - 1]]

\* the four conditions of the guard, as the specification lists them
FourConditions(f, file_path) ==
    /\ IsStr(file_path)
    /\ Exists(f, AbsPath(file_path))
    /\ StartsWith(PathStr(AbsPath(file_path)), PathStr(AbsPath(ProjectRoot)))
    /\ Stat(f, AbsPath(file_path)).kind = "file"
    /\ Lookup(f, AbsPath(file_path)).kind # "link"

\* C1: for a readable file of N lines that passes the guard and a target line
\* L in 1..N, fixed_lines returns exactly the lines max(1, L-B)..min(N, L+A),
\* one output line per file line, blank lines included, each "<n>: <text>".
C1_FixedWindowContents ==
    (Called /\ req.strategy = "fixed_lines" /\ Readable
        /\ req.line_number \in 1..Len(TargetLines))
    => /\ res.kind = "text"
       /\ res.text = NumberedRange(TargetLines,
                         Max(1, req.line_number - Arg(req.kw.lines_before, DefaultLinesBefore)),
                         Min(Len(TargetLines),
                             req.line_number + Arg(req.kw.lines_after, DefaultLinesAfter)))

C3_ReadsInsideRoot == \A p \in reads : IsUnder(p, AbsPath(ProjectRoot))

\* the path is outside project_root, names nothing, a directory or a link
Rejectable(f, file_path) ==
    /\ IsStr(file_path)
    /\ \/ ~IsUnder(AbsPath(file_path), AbsPath(ProjectRoot))
       \/ ~Exists(f, AbsPath(file_path))
       \/ Stat(f, AbsPath(file_path)).kind = "dir"
       \/ Lookup(f, AbsPath(file_path)).kind = "link"

\* C4: for a path outside project_root, nonexistent, a directory or a symlink
\* and each of the four strategies, the call returns None, no strategy method
\* is entered and no file content is read.
C4_RejectedPathsUnavailable ==
    (Called /\ req.strategy \in KnownStrategies /\ Rejectable(fs, req.file_path))
    => (res.kind = "None" /\ ran = {} /\ reads = {})

\* C5: for a path that passes the guard and a strategy name outside the four,
\* the call raises ValueError and enters no strategy method.
C5_ClosedStrategySet ==
    (Called /\ Guarded /\ req.strategy \notin KnownStrategies)
    => (res.kind = "raise" /\ res.exc = "ValueError" /\ ran = {})

\* C6: fixed_lines, function_scope and file_scope return an excerpt, never
\* None, for every file that passes the guard and can be read, an empty file
\* and a line_number beyond the file included.
C6_FallbackChainTerminal ==
    (Called /\ req.strategy \in {"fixed_lines", "function_scope", "file_scope"} /\ Readable)
    => res.kind = "text"

\* what fixed_lines gives for the request's file, line and lines_before / lines_after
FixedWindowOfRequest ==
    _build_fixed_lines_context(fs, req.file_path, req.line_number,
                               Kwargs(req.kw.lines_before, req.kw.lines_after, <<>>, <<>>))

\* function_scope gave up and went to the fallback
Abandoned == Called /\ req.strategy = "function_scope" /\ Guarded /\ "fixed_lines" \in ran

C8_FileScopeWithinCap ==
    (Called /\ req.strategy = "file_scope" /\ Readable
        /\ Len(TargetLines) \in 1..Arg(req.kw.max_lines, DefaultFileMaxLines))
    => /\ res.kind = "text"
       /\ Len(res.text) = Len(TargetLines)
       /\ \A n \in 1..Len(TargetLines) :
             res.text[n] =
                 IF Arg(req.kw.highlight_issue_line, TRUE) /\ n = req.line_number
                 THEN Str(n) \o <<":", " ", ">", ">", ">", " ">> \o TargetLines[n]
                          \o <<" ", "<", "<", "<">>
                 ELSE Str(n) \o <<":", " ">> \o TargetLines[n]

\* C9: for a file with more lines than max_lines and a target line inside it,
\* file_scope returns a result that is not None, not empty and has strictly
\* fewer lines than the file.
C9_FileScopeOverCap ==
    (Called /\ req.strategy = "file_scope" /\ Readable
        /\ Len(TargetLines) > Arg(req.kw.max_lines, DefaultFileMaxLines)
        /\ req.line_number \in 1..Len(TargetLines))
    => /\ res.kind = "text"
       /\ res.text # EmptyText
       /\ Len(res.text) < Len(TargetLines)

\* C10: file_with_includes returns None iff the primary file fails the guard
\* or cannot be read; for a guarded, readable primary file it always returns
\* a result.
C10_IncludeGraphFailure ==
    (Called /\ req.strategy = "file_with_includes")
    => ((res.kind = "None") <=> ~Readable)

\* the target of an #include directive line, <<>> for any other line
DirectiveTarget(line) ==
    IF ~StartsWith(line, IncludeKeyword) THEN <<>>
    ELSE LET open == SkipSpace(line, Len(IncludeKeyword) + 1)
         IN IF /\ open + 1 < Len(line)
               /\ \/ (line[open] = "<" /\ Last(line) = ">")
                  \/ (line[open] = "\"" /\ Last(line) = "\"")
            THEN SubSeq(line, open + 1, Len(line) - 1)
            ELSE <<>>

\* the basename of an include target without its extension
BasenameWithoutExtension(target) == SplitExtBase(AfterLast(target, "/"))

RECURSIVE ProjectTargets(_)
\* the targets of the directives of lines, in order, standard headers left out
ProjectTargets(lines) ==
    IF lines = <<>> THEN <<>>
    ELSE (IF DirectiveTarget(Head(lines)) # <<>>
             /\ BasenameWithoutExtension(DirectiveTarget(Head(lines))) \notin _std_headers
          THEN <<DirectiveTarget(Head(lines))>> ELSE <<>>)
         \o ProjectTargets(Tail(lines))

\* the lines block occur in text, one after the other
HasBlock(text, block) ==
    \E i \in 0..(Len(text) - Len(block)) : SubSeq(text, i + 1, i + Len(block)) = block

\* what the result shows of the include file at p: its marker and its content
IncludeBlock(p) == <<<<"Included File: ">> \o PathStr(p)>> \o RStripNl(Stat(fs, p).lines)

\* C11: _find_includes returns, in order, exactly the targets of the #include
\* directives whose basename without extension is not a standard header; the
\* file_with_includes result holds the content of every such include that
\* resolves in the file index (and reads), and nothing of a header whose
\* basename is a standard header's.
C11_StandardHeaderExclusion ==
    (Called /\ req.strategy = "file_with_includes" /\ req.file_path = RawPath(TRUE, P_cxx))
    => /\ _find_includes(TargetLines) = ProjectTargets(TargetLines)
       /\ res.kind = "text"
       /\ \A i \in 1..Len(ProjectTargets(TargetLines)) :
             \A p \in {_find_include_file(cache, ProjectTargets(TargetLines)[i])[k] :
                          k \in 1..Len(_find_include_file(cache, ProjectTargets(TargetLines)[i]))} :
                 CanRead(fs, p) => HasBlock(res.text, IncludeBlock(p))
       /\ ~HasBlock(res.text, <<<<"Included File: ">> \o PathStr(P_map)>>)
       /\ P_map \notin reads

\* every line of text is "<n>: <text>", n counting up from start
NumberedFrom(text, start) ==
    \A i \in 1..Len(text) : StartsWith(text[i], Str(start + i - 1) \o <<":", " ">>)

\* newline-joined lines "<line number>: <text>" with consecutive line numbers
WellFormed(text) == \E start \in 1..MaxLine : NumberedFrom(text, start)

JoinedRange(lines, lo, hi) == IF hi < lo THEN EmptyText ELSE SubSeq(lines, lo, hi)

\* the range a fixed_lines request spans before any clamping
RequestStart == req.line_number - Arg(req.kw.lines_before, DefaultLinesBefore)
RequestEnd == req.line_number + Arg(req.kw.lines_after, DefaultLinesAfter)

\* C13: for a readable file of N lines read_file_lines(path, s, e) returns the
\* lines s' = max(1, s) through min(N, max(s', e)), joined by newlines with no
\* final newline, one line per file line of the range, empty lines kept
\* wherever they fall; for a file that cannot be read it returns None.
C13_LineRangeReader ==
    (Called /\ req.strategy = "fixed_lines" /\ IsStr(req.file_path))
    => read_file_lines(fs, Target, RequestStart, RequestEnd)
         = IF CanRead(fs, Target)
           THEN SomeStr(JoinedRange(TargetLines, Max(1, RequestStart),
                                    Min(Len(TargetLines), Max(Max(1, RequestStart), RequestEnd))))
           ELSE NoneStr

\* C14: over any sequence of file_with_includes calls, with files created and
\* deleted under project_root in between, the directory scan runs at most
\* once, and after that first build the file index never changes.
C14_IndexBuiltOnce == [](scans <= 1) /\ [][scans >= 1 => cache' = cache]_vars

----------------------------------------------------------------------------
(* The properties of the issue store.  Each is stated over the database db *)
(* at the configured DB_PATH and what the last call gave back (out).       *)

\* how far along its lifecycle a status is
StatusRank(status) ==
    CASE status = "pending_llm" -> 0
      [] status = "pending_review" -> 1
      [] status = "reviewed" -> 2
      [] OTHER -> -1

\* the last call was op and it returned
ReturnedFrom(o, op) == o.op = op /\ o.kind = "return"

\* C15: add_issues stores every new issue with status 'pending_llm';
\* add_llm_classification moves the issue to 'pending_review' only when it
\* was 'pending_llm' and leaves any other status unchanged;
\* set_issue_true_classification sets 'reviewed' from any status; over any
\* sequence of these operations no status ever moves backward.
C15_StatusLifecycle ==
    [][\A p \in DbPaths :
         /\ Len(db'[p].issues) >= Len(db[p].issues)
         /\ \A i \in 1..Len(db'[p].issues) :
              IF i > Len(db[p].issues)
              THEN /\ ReturnedFrom(out', "add_issues")
                   /\ db'[p].issues[i].status = "pending_llm"
              ELSE /\ StatusRank(db'[p].issues[i].status) >= StatusRank(db[p].issues[i].status)
                   /\ (ReturnedFrom(out', "add_llm_classification") /\ p = DB_PATH
                       /\ out'.args[1] = i)
                      => db'[p].issues[i].status
                           = IF db[p].issues[i].status = "pending_llm"
                             THEN "pending_review"
                             ELSE db[p].issues[i].status
                   /\ (ReturnedFrom(out', "set_issue_true_classification") /\ p = DB_PATH
                       /\ out'.args[1] = i)
                      => db'[p].issues[i].status = "reviewed"
      ]_vars

\* a classification has just been added to an issue that was reviewed before
C15_Witness ==
    /\ ReturnedFrom(out, "add_llm_classification")
    /\ db[DB_PATH].issues[out.args[1]].status = "reviewed"

\* C16: after any call of init_db has returned normally, the tables issues,
\* llm_classifications and llm_responses and the update trigger exist in the
\* database at the configured DB_PATH, also when init_db ran earlier in the
\* process and DB_PATH has been pointed at another file since.
C16_InitDbPostcondition == ReturnedFrom(out, "init_db") => db[DB_PATH].tables

\* some issue of the batch lacks a required field
HasIncomplete(issues) == \E k \in 1..Len(issues) : ~(RequiredFields \subseteq issues[k])

\* the call o, made on the database d, is one of the failing writes
FailsWith(o, d, exc) ==
    \/ exc = "ValueError" /\ o.op = "add_issues" /\ HasIncomplete(o.args[1])
    \/ exc = "ValueError" /\ o.op = "add_llm_classification" /\ ~IssueExists(d, o.args[1])
    \/ exc = "ValueError" /\ o.op = "set_issue_true_classification"
       /\ o.args[2] \notin valid_classifications
    \/ exc = "" /\ o.op = "set_issue_true_classification"
       /\ o.args[2] \in valid_classifications /\ ~IssueExists(d, o.args[1])
    \/ exc = "" /\ o.op = "update_llm_classification_review"
       /\ ~ClassificationExists(d, o.args[1])

\* C17: add_issues with a batch in which any issue lacks a required field
\* raises ValueError and stores no issue of the batch; add_llm_classification
\* for a nonexistent issue raises ValueError; set_issue_true_classification
\* raises ValueError for an invalid classification and returns False for a
\* nonexistent issue; update_llm_classification_review returns False for a
\* nonexistent classification; in each case no row of any table changes.
C17_FailedWritesChangeNothing ==
    [][/\ FailsWith(out', db[DB_PATH], "ValueError")
          => (out'.kind = "raise" /\ out'.exc = "ValueError" /\ db' = db)
       /\ FailsWith(out', db[DB_PATH], "")
          => (out'.kind = "return" /\ out'.value = <<FALSE>> /\ db' = db)
      ]_vars

----------------------------------------------------------------------------
(* The properties of function_scope, over the primary file a.c *)

\* the requests of function_scope on a file that can be read
FunctionRequest == Called /\ req.strategy = "function_scope" /\ Readable

\* the brace depth after the lines s..k, counted from the line s
RECURSIVE Depth(_, _, _)
Depth(lines, s, k) ==
    IF k < s THEN 0
    ELSE Depth(lines, s, k - 1) + Count(lines[k], "{") - Count(lines[k], "}")

\* the line s is a signature with its opening brace, and e holds the brace
\* that closes it
IsFunction(lines, s, e) ==
    /\ s < e
    /\ SignatureMatch(lines[s])
    /\ Contains(lines[s], "{")
    /\ Depth(lines, s, e) = 0
    /\ \A k \in s..(e - 1) : Depth(lines, s, k) > 0

\* the functions whose body holds the line n, innermost first
Enclosing(lines, n) ==
    {se \in (1..Len(lines)) \X (1..Len(lines)) :
        /\ IsFunction(lines, se[1], se[2])
        /\ se[1] < n /\ n < se[2]
        /\ \A k \in (se[1] + 1)..(n - 1) : ~SignatureMatch(lines[k])}

\* the value of max_lines a function_scope request runs with
RequestMaxLines == Arg(req.kw.max_lines, DefaultFunctionMaxLines)

\* C18: if the target line lies inside the body of a function whose signature
\* line has its opening brace, at most 50 lines above the target, with the
\* matching closing brace at most 200 lines below and a span of at most
\* max_lines lines, function_scope returns exactly the numbered lines from
\* the function's start through the closing brace, whatever the text of the
\* target line and of the lines between the signature and the target.
C18_EnclosingFunctionReturned ==
    FunctionRequest =>
        \A se \in Enclosing(TargetLines, req.line_number) :
            (/\ req.line_number - se[1] <= WindowBefore
             /\ se[2] - req.line_number <= WindowAfter
             /\ se[2] - se[1] + 1 <= RequestMaxLines)
            => /\ res.kind = "text"
               /\ \E start \in 1..se[1] : res.text = NumberedRange(TargetLines, start, se[2])

\* function_scope gave a function span, not a fallback
SpanReturned == FunctionRequest /\ res.kind = "text" /\ "fixed_lines" \notin ran

\* C19: whenever function_scope returns a function span rather than a
\* fallback, the span has at most max_lines lines; a function whose span
\* counts more than max_lines lines always yields the Fixed-Window fallback.
C19_FunctionSpanBound ==
    /\ SpanReturned => Len(res.text) <= RequestMaxLines
    /\ FunctionRequest =>
          \A se \in Enclosing(TargetLines, req.line_number) :
              se[2] - se[1] + 1 > RequestMaxLines => "fixed_lines" \in ran

\* C20: for a path that passes the guard, each of the four strategies and
\* any subset of the options lines_before, lines_after, max_lines and
\* highlight_issue_line, build_context returns an excerpt or the unavailable
\* marker and never raises.
C20_NoExceptionForOptions ==
    (Called /\ Guarded /\ req.strategy \in KnownStrategies) => res.kind \in {"text", "None"}

----------------------------------------------------------------------------
(* Further properties of build_context *)

\* what the caller sees of a call: the value returned or the error raised
Seen(r) == [kind |-> r.kind, text |-> r.text, exc |-> r.exc]

\* the guard refused the request for a security reason: the path exists but
\* lies outside project_root or is a symbolic link
SecurityRejected ==
    /\ Called
    /\ IsStr(req.file_path)
    /\ ~Guarded
    /\ Exists(fs, Target)
    /\ \/ ~IsUnder(Target, AbsPath(ProjectRoot))
       \/ Lookup(fs, Target).kind = "link"

\* the answer to the same request for a file that does not exist
MissingFileAnswer ==
    Seen(build_context(fs, cache, RawPath(TRUE, P_missing), req.line_number, req.strategy, req.kw))

\* C21: a request that build_context rejects because the guard fails for a
\* security reason (outside project_root, or a symbolic link) is reported to
\* the caller distinctly from plain "no context available": the value
\* returned or the error raised differs from that for a missing file.
C21_SecurityRejectionDistinct ==
    (SecurityRejected /\ req.strategy \in KnownStrategies) => res # MissingFileAnswer

\* C22: build_context called with a strategy name outside the known set
\* signals an error for every file path, including a path that fails the
\* guard; it is never answered with the unavailable marker or an excerpt.
C22_UnknownStrategySurfaced ==
    (Called /\ req.strategy \notin KnownStrategies) => res.kind = "raise"

\* C28: whenever function_scope returns a function span rather than a
\* fallback, the target line is inside the span: first returned line number
\* <= line_number <= last returned line number.
C28_SpanContainsTarget ==
    SpanReturned =>
        \E first \in 1..req.line_number, last \in req.line_number..Len(TargetLines) :
            res.text = NumberedRange(TargetLines, first, last)

\* C29: every line number in a fixed_lines result refers to an existing line
\* of the file: for a readable file of N lines all emitted numbers lie in
\* 1..N, also when line_number - lines_before is greater than N and when the
\* file is empty.
C29_NoPhantomLines ==
    (Called /\ req.strategy = "fixed_lines" /\ Readable /\ res.kind = "text")
    => \A i \in 1..Len(res.text) :
           \E n \in 1..Len(TargetLines) : StartsWith(res.text[i], Str(n) \o <<":", " ">>)

----------------------------------------------------------------------------
(* Further properties of file_with_includes *)

\* the extensions in the order they are tried
ExtensionOrder == <<".h", ".hpp", ".cpp", ".cc", ".c">>
ExtensionStr(i) ==
    CASE ExtensionOrder[i] = ".h" -> <<".", "h">>
      [] ExtensionOrder[i] = ".hpp" -> <<".", "h", "p", "p">>
      [] ExtensionOrder[i] = ".cpp" -> <<".", "c", "p", "p">>
      [] ExtensionOrder[i] = ".cc" -> <<".", "c", "c">>
      [] ExtensionOrder[i] = ".c" -> <<".", "c">>

\* the include target with its extension replaced by the i-th one
Substituted(target, i) == SplitExtBase(target) \o ExtensionStr(i)

\* the key of the index c an include target resolves by: <<key>>, or <<>>
ResolvedKey(c, target) ==
    IF target \in DOMAIN c THEN <<target>>
    ELSE IF \A i \in 1..Len(ExtensionOrder) : Substituted(target, i) \notin DOMAIN c THEN <<>>
    ELSE <<Substituted(target,
                       CHOOSE i \in 1..Len(ExtensionOrder) :
                           /\ Substituted(target, i) \in DOMAIN c
                           /\ \A j \in 1..(i - 1) : Substituted(target, j) \notin DOMAIN c)>>

\* the files of the index c that the include targets resolve to
ResolvedFiles(c, targets) ==
    {c[ResolvedKey(c, targets[i])[1]] :
        i \in {j \in 1..Len(targets) : ResolvedKey(c, targets[j]) # <<>>}}

\* a file_with_includes call on m.cxx that gave a result
IncludesResult ==
    /\ Called
    /\ req.strategy = "file_with_includes"
    /\ req.file_path = RawPath(TRUE, P_cxx)
    /\ res.kind = "text"

\* C24: each non-standard include target is looked up in the file index
\* first as an exact key; only if that key is absent its extension is
\* replaced in turn by .h, .hpp, .cpp, .cc, .c and the first key present is
\* taken; if none is present the include is unresolved.  The files a call
\* includes are those the index alone gives by this rule.
C24_IncludeResolutionOrder ==
    IncludesResult =>
        /\ reads \ {Target}
             = {p \in ResolvedFiles(cache, _find_includes(TargetLines)) :
                   CanRead(fs, p) /\ ~IsEmptyText(RStripNl(Stat(fs, p).lines))}
        /\ \A p \in reads \ {Target} : HasBlock(res.text, IncludeBlock(p))
        /\ \A p \in ResolveHeaders \ reads :
               ~HasBlock(res.text, <<<<"Included File: ">> \o PathStr(p)>>)

\* "c.hpp" is included while c.h and c.hpp are both in the index: the exact
\* key wins; and <c> is included too, which goes to c.h
C24_Witness ==
    /\ IncludesResult
    /\ TargetLines = <<HppIncludeLine, ExtlessIncludeLine>>
    /\ {<<"c", ".", "h">>, <<"c", ".", "h", "p", "p">>} \subseteq DOMAIN cache
    /\ reads = {P_cxx, P_hpp, P_ch}

----------------------------------------------------------------------------
(* Further properties of the issue store *)

\* the issue i of the database d has a row in llm_classifications
HasClassification(d, i) ==
    \E k \in 1..Len(d.llm_classifications) : d.llm_classifications[k].issue_id = i

\* C30: in every database state reachable through add_issues,
\* add_llm_classification, update_llm_classification_review and
\* set_issue_true_classification each issue has status 'reviewed' iff its
\* true_classification is set, 'pending_llm' iff it is not set and the issue
\* has no llm_classifications row, 'pending_review' iff it is not set and
\* the issue has at least one row.
C30_StatusFromData ==
    \A p \in DbPaths : \A i \in 1..Len(db[p].issues) :
        /\ db[p].issues[i].status = "reviewed" <=> db[p].issues[i].true_classification # <<>>
        /\ db[p].issues[i].status = "pending_llm"
             <=> (db[p].issues[i].true_classification = <<>> /\ ~HasClassification(db[p], i))
        /\ db[p].issues[i].status = "pending_review"
             <=> (db[p].issues[i].true_classification = <<>> /\ HasClassification(db[p], i))

\* one issue is reviewed and has a classification row, the other is still
\* pending_llm
C30_Witness ==
    \E p \in DbPaths :
        /\ Len(db[p].issues) = 2
        /\ \E i, j \in 1..2 :
              /\ db[p].issues[i].status = "reviewed" /\ HasClassification(db[p], i)
              /\ db[p].issues[j].status = "pending_llm"

\* ---- properties of get_llm_statistics ----

\* the joined rows of one group
GroupRows(d, column, g) == {k \in JoinedRows(d) : d.llm_classifications[k][column] = g}

\* the statistics of a grouping count every joined row of every group
GroupsExact(d, column, stats) ==
    /\ DOMAIN stats = GroupKeys(d, column)
    /\ \A g \in DOMAIN stats :
          /\ stats[g].total = Cardinality(GroupRows(d, column, g))
          /\ stats[g].correct = CorrectAmong(d, GroupRows(d, column, g))

RECURSIVE SumOf(_, _, _)
SumOf(stats, keys, field) ==
    IF keys = {} THEN 0
    ELSE LET g == CHOOSE x \in keys : TRUE
         IN  stats[g][field] + SumOf(stats, keys \ {g}, field)

StatisticsReturned == out.op = "get_llm_statistics" /\ out.kind = "return"

\* C25: get_llm_statistics reports for each model name, each context strategy
\* and each prompt template total = the number of classifications of the group
\* made on issues that have a true classification and correct = the number of
\* those that equal the true classification, so that the totals and the
\* corrects over all models add up to those of overall_accuracy.
C25_PerGroupStatistics ==
    StatisticsReturned =>
        /\ GroupsExact(db[DB_PATH], "llm_model_name", out.value[1].llm_models)
        /\ GroupsExact(db[DB_PATH], "context_strategy", out.value[1].context_strategies)
        /\ GroupsExact(db[DB_PATH], "prompt_template", out.value[1].prompt_templates)
        /\ SumOf(out.value[1].llm_models, DOMAIN out.value[1].llm_models, "total")
               = out.value[1].overall_accuracy.total
        /\ <<SumOf(out.value[1].llm_models, DOMAIN out.value[1].llm_models, "correct")>>
               = out.value[1].overall_accuracy.correct


\* ---- properties of process_issues ----

\* how often id occurs in a list of ids
RECURSIVE Occurrences(_, _)
Occurrences(ids, id) ==
    IF ids = <<>> THEN 0
    ELSE (IF Head(ids) = id THEN 1 ELSE 0) + Occurrences(Tail(ids), id)

\* the ids of the issues the loop has passed, and those of the failed ones
PassedIds == [k \in 1..session.current_issue_index |-> session.issues[k].id]
FailedIds == [k \in 1..Len(session.failed_issues) |-> session.failed_issues[k].id]

BatchEnded == session.pc = "done" /\ ~session.stopped

\* C26: process_issues takes the issues in list order, and every issue it has
\* passed is in exactly one of processed_issues and failed_issues, whatever
\* failed (path, context, strategy, LLM, storage); when no stop was
\* requested the batch ends with every issue of the list passed and with
\* processing_issues false.
C26_EveryIssueAccounted ==
    /\ session.current_issue_index <= Len(session.issues)
    /\ Len(session.processed_issues) + Len(session.failed_issues) = session.current_issue_index
    /\ \A id \in 1..MaxIssues :
          Occurrences(session.processed_issues, id) + Occurrences(FailedIds, id)
             = Occurrences(PassedIds, id)
    /\ BatchEnded =>
          /\ session.current_issue_index = Len(session.issues)
          /\ ~session.processing_issues

\* a batch of two issues ended without a stop, one issue having failed at the
\* path guard or the context and one after its context was built
C26_Witness ==
    /\ BatchEnded
    /\ Len(session.issues) = 2
    /\ \E k \in 1..2 : session.failed_issues[k].error = "ValueError"
    /\ \E k \in 1..2 : session.failed_issues[k].error # "ValueError"

\* the rows of llm_classifications on an issue
RowsOn(d, id) == {k \in 1..Len(d.llm_classifications) : d.llm_classifications[k].issue_id = id}

\* the loop has passed an issue whose path was safe, whose context was built
\* and whose classification the LLM service returned
ClassifiedPass ==
    /\ session'.current_issue_index = session.current_issue_index + 1
    /\ session'.last[1].safe
    /\ session'.last[1].context = "text"
    /\ session'.last[1].classified

\* C27: an issue with a safe path, an available context and a classification
\* returned by classify_issue gets exactly one more llm_classifications row,
\* leaves 'pending_llm' for 'pending_review', and is appended to
\* processed_issues and not to failed_issues.
C27_ClassificationStored ==
    [][ClassifiedPass =>
          /\ Cardinality(RowsOn(db'[DB_PATH], session'.last[1].id))
                = Cardinality(RowsOn(db[DB_PATH], session'.last[1].id)) + 1
          /\ db[DB_PATH].issues[session'.last[1].id].status = "pending_llm"
                => db'[DB_PATH].issues[session'.last[1].id].status = "pending_review"
          /\ session'.processed_issues = Append(session.processed_issues, session'.last[1].id)
          /\ session'.failed_issues = session.failed_issues]_vars

\* ---- properties of the lazy build of the file index ----

\* what a call gives against the index of the whole project
CompleteAnswer == _build_file_with_includes_context(fs, <<>>, ThreadFile, 1, NoKwargs)

\* thread t has its result, and it is not the one the whole index gives
ResolvedPartially(t) ==
    /\ threads[t].pc = "done"
    /\ \/ threads[t].reads # CompleteAnswer.reads
       \/ threads[t].res.text # CompleteAnswer.text

\* C23: a call resolves its includes against a partial index only when
\* another thread was filling the index of the same ContextBuilder during the
\* call; calls that do not overlap a build resolve against the complete index.
C23_PartialIndexOnlyWhenRaced ==
    \A t \in Threads : ResolvedPartially(t) => threads[t].raced

\* one thread is still filling the index, the other has found it non-empty and
\* has missed an include file that the complete index resolves
C23_Witness ==
    \E t \in Threads, u \in Threads :
        /\ threads[u].pc = "filling"
        /\ ResolvedPartially(t)
        /\ threads[t].reads # CompleteAnswer.reads
        /\ threads[t].reads \subseteq CompleteAnswer.reads

====
